---- MODULE Spec2Model ----
(***************************************************************************)
(* Paper-trading core of paradex-bot: OrderSimulator (fill simulator),     *)
(* PortfolioTracker (ledger) and PaperTradingExchange (coordinator with    *)
(* the asyncio monitoring task).                                           *)
(*                                                                         *)
(* Numbers.  The program computes with Python floats.  The model computes  *)
(* with exact rationals [n |-> numerator, d |-> denominator > 0] in lowest *)
(* terms, so that averages, fees and slippage factors are the values the   *)
(* formulas of the source denote; rounding of binary floats is not         *)
(* modelled.  Sizes are drawn from whole numbers and stay whole under the  *)
(* program's operations on them (sum, difference, min), so they are        *)
(* integers.                                                               *)
(***************************************************************************)
EXTENDS Integers, Sequences, FiniteSets, Bags, TLC

VARIABLES
    portfolio,      \* PaperTradingExchange.portfolio : PortfolioTracker
    market,         \* real_exchange: buy_orders_list, sell_orders_list, mark_price
    monitoring,     \* PaperTradingExchange._monitoring
    monitor_task,   \* PaperTradingExchange._monitor_task: index into tasks, 0 for None
    tasks,          \* the _monitor_orders tasks created so far, each with its frame
    inflight,       \* open_market_order calls of the strategy suspended in simulate_fill_delay
    closer,         \* the close_all_positions / critical_close_all call in progress
    issued,         \* how many order ids, market orders, modifications and fills there were
    history,        \* what the fills did so far: fee and PnL totals, the last _process_fill
    sim             \* one call of an OrderSimulator function and its result

vars == <<portfolio, market, monitoring, monitor_task, tasks, inflight, closer, issued,
          history, sim>>

----------------------------------------------------------------------------
(* Exact rational arithmetic                                               *)

Abs(x) == IF x < 0 THEN -x ELSE x

RECURSIVE GCD(_, _)
GCD(a, b) == IF b = 0 THEN a ELSE GCD(b, a % b)

Gcd(a, b) == LET g == GCD(Abs(a), Abs(b)) IN IF g = 0 THEN 1 ELSE g

Lcm(a, b) == (a \div Gcd(a, b)) * b

Norm(n, d) == LET g == Gcd(n, d) IN [n |-> n \div g, d |-> d \div g]

R(i) == [n |-> i, d |-> 1]

RAdd(a, b) == LET l == Lcm(a.d, b.d)
              IN Norm(a.n * (l \div a.d) + b.n * (l \div b.d), l)

RNeg(a) == [n |-> -a.n, d |-> a.d]

RSub(a, b) == RAdd(a, RNeg(b))

RMul(a, b) == LET g1 == Gcd(a.n, b.d)
                  g2 == Gcd(b.n, a.d)
              IN Norm((a.n \div g1) * (b.n \div g2), (a.d \div g2) * (b.d \div g1))

\* a / b for b # 0
RDiv(a, b) == RMul(a, IF b.n < 0 THEN [n |-> -b.d, d |-> -b.n]
                                  ELSE [n |-> b.d, d |-> b.n])

\* Comparison by integer parts and, when they agree, by the reciprocals of
\* the fractional parts: no product of numerators and denominators is formed.
\* Compares a/b with c/d for b, d > 0: -1, 0 or 1.
RECURSIVE CmpFrac(_, _, _, _)
CmpFrac(a, b, c, d) ==
    LET qa == a \div b
        qc == c \div d
        ra == a % b
        rc == c % d
    IN IF qa # qc THEN (IF qa < qc THEN -1 ELSE 1)
       ELSE IF ra = 0 /\ rc = 0 THEN 0
       ELSE IF ra = 0 THEN -1
       ELSE IF rc = 0 THEN 1
       ELSE CmpFrac(d, rc, b, ra)

RLt(a, b) == CmpFrac(a.n, a.d, b.n, b.d) < 0

RLe(a, b) == CmpFrac(a.n, a.d, b.n, b.d) <= 0

RMin(a, b) == IF RLe(a, b) THEN a ELSE b

RMax(a, b) == IF RLe(a, b) THEN b ELSE a

IMin(a, b) == IF a <= b THEN a ELSE b

----------------------------------------------------------------------------
(* OrderSimulator                                                          *)

\* Optional[T]: None is the empty sequence, a value x is <<x>>
None == <<>>
Some(x) == <<x>>
The(opt) == opt[1]

BUY == "BUY"
SELL == "SELL"
LONG == "LONG"
SHORT == "SHORT"

MAKER_FEE_RATE == [n |-> -2, d |-> 10000]
TAKER_FEE_RATE == [n |-> 5, d |-> 10000]

\* orders_list[:10]
MaxLevels == 10

\* slippage factors of _walk_order_book
EmptyBookSlippage(is_buy) == IF is_buy THEN [n |-> 101, d |-> 100] ELSE [n |-> 99, d |-> 100]

RemainderSlippageFlipped(is_buy) == IF is_buy THEN [n |-> 49, d |-> 50] ELSE [n |-> 51, d |-> 50]

RemainderSlippage(is_buy) == IF is_buy THEN [n |-> 51, d |-> 50] ELSE [n |-> 49, d |-> 50]

\* A book level is <<price, size>>: price a rational, size an integer.
LevelPrice(lv) == lv[1]
LevelSize(lv) == lv[2]

RECURSIVE LiquidityStrict(_, _, _)
LiquidityStrict(orders_list, price, is_buy) ==
    IF orders_list = <<>> THEN 0
    ELSE LET lv == Head(orders_list)
             ok == IF is_buy THEN RLt(LevelPrice(lv), price) ELSE RLt(price, LevelPrice(lv))
         IN IF ok THEN LevelSize(lv) + LiquidityStrict(Tail(orders_list), price, is_buy)
            ELSE 0

\* the for loop of _get_available_liquidity: sums sizes, breaks at the first
\* level that is worse than price
RECURSIVE get_available_liquidity(_, _, _)
get_available_liquidity(orders_list, price, is_buy) ==
    IF orders_list = <<>> THEN 0
    ELSE LET lv == Head(orders_list)
             ok == IF is_buy THEN RLe(LevelPrice(lv), price) ELSE RLe(price, LevelPrice(lv))
         IN IF ok THEN LevelSize(lv) + get_available_liquidity(Tail(orders_list), price, is_buy)
            ELSE 0

Fill(price, size, is_maker) == [price |-> price, size |-> size, is_maker |-> is_maker]

\* the part of both branches after is_maker is known: the liquidity cap and
\* the return
CappedFill(order, fill_price, is_maker, counter_list, is_buy) ==
    LET available == get_available_liquidity(counter_list, order.price, is_buy)
        fill_size == IF available < order.size THEN available ELSE order.size
    IN IF fill_size > 0 THEN Some(Fill(fill_price, fill_size, is_maker)) ELSE None

CheckBuyTakesAsk(order, bid_price, ask_price, sell_orders_list) ==
    IF RLe(ask_price, order.price)
    THEN CappedFill(order, ask_price, RLt(order.price, bid_price), sell_orders_list, TRUE)
    ELSE None

\* the BUY branch of check_limit_order_fill
check_limit_buy(order, bid_price, ask_price, sell_orders_list) ==
    IF RLe(ask_price, order.price)
    THEN LET is_maker == RLt(order.price, bid_price)
             fill_price == IF ~is_maker THEN RMin(order.price, ask_price) ELSE order.price
         IN CappedFill(order, fill_price, is_maker, sell_orders_list, TRUE)
    ELSE None

CheckSellMakerByBid(order, bid_price, ask_price, buy_orders_list) ==
    IF RLe(order.price, bid_price)
    THEN LET is_maker == RLt(bid_price, order.price)
             fill_price == IF ~is_maker THEN RMax(order.price, bid_price) ELSE order.price
         IN CappedFill(order, fill_price, is_maker, buy_orders_list, FALSE)
    ELSE None

\* the SELL branch of check_limit_order_fill
check_limit_sell(order, bid_price, ask_price, buy_orders_list) ==
    IF RLe(order.price, bid_price)
    THEN LET is_maker == RLt(ask_price, order.price)
             fill_price == IF ~is_maker THEN RMax(order.price, bid_price) ELSE order.price
         IN CappedFill(order, fill_price, is_maker, buy_orders_list, FALSE)
    ELSE None

check_limit_order_fill(order, bid_price, ask_price, buy_orders_list, sell_orders_list) ==
    IF order.side = BUY
    THEN check_limit_buy(order, bid_price, ask_price, sell_orders_list)
    ELSE check_limit_sell(order, bid_price, ask_price, buy_orders_list)

\* the for loop of _walk_order_book over orders_list[:10]; acc is
\* [remaining_size, total_cost, total_filled]
LevelCostWholeLevel(fill_at_level, lv) == RMul(R(LevelSize(lv)), LevelPrice(lv))

\* "fill_at_level * order_price"
LevelCost(fill_at_level, lv) == RMul(R(fill_at_level), LevelPrice(lv))

RECURSIVE WalkLevels(_, _)
WalkLevels(levels, acc) ==
    IF levels = <<>> \/ acc.remaining_size <= 0 THEN acc
    ELSE LET lv == Head(levels)
             fill_at_level == IMin(acc.remaining_size, LevelSize(lv))
         IN WalkLevels(Tail(levels),
                       [remaining_size |-> acc.remaining_size - fill_at_level,
                        total_cost |-> RAdd(acc.total_cost, LevelCost(fill_at_level, lv)),
                        total_filled |-> acc.total_filled + fill_at_level])

FirstLevels(orders_list) == SubSeq(orders_list, 1, IMin(MaxLevels, Len(orders_list)))

WalkRemainderDropped(orders_list, acc, is_buy) == acc

\* "if remaining_size > 0": the remainder at the last price with slippage
WalkRemainder(orders_list, acc, is_buy) ==
    IF acc.remaining_size > 0
    THEN LET last_price == LevelPrice(orders_list[IMin(MaxLevels - 1, Len(orders_list) - 1) + 1])
             remainder_price == RMul(last_price, RemainderSlippage(is_buy))
         IN [remaining_size |-> acc.remaining_size,
             total_cost |-> RAdd(acc.total_cost, RMul(R(acc.remaining_size), remainder_price)),
             total_filled |-> acc.total_filled + acc.remaining_size]
    ELSE acc

\* "average_price = total_cost / total_filled if total_filled > 0 else starting_price"
WalkAverage(acc, starting_price) ==
    IF acc.total_filled > 0 THEN RDiv(acc.total_cost, R(acc.total_filled)) ELSE starting_price

\* returns <<average_price, total_filled>>
walk_order_book(orders_list, size, starting_price, is_buy) ==
    IF orders_list = <<>>
    THEN <<RMul(starting_price, EmptyBookSlippage(is_buy)), size>>
    ELSE LET walked == WalkLevels(FirstLevels(orders_list),
                                  [remaining_size |-> size, total_cost |-> R(0), total_filled |-> 0])
             acc == WalkRemainder(orders_list, walked, is_buy)
         IN <<WalkAverage(acc, starting_price), acc.total_filled>>

simulate_market_order_fill(side, size, bid_price, ask_price, buy_orders_list, sell_orders_list) ==
    IF side = BUY
    THEN walk_order_book(sell_orders_list, size, ask_price, TRUE)
    ELSE walk_order_book(buy_orders_list, size, bid_price, FALSE)

CalculateFeeTakerOnly(fill_price, fill_size, is_maker) ==
    RMul(RMul(fill_price, R(fill_size)), TAKER_FEE_RATE)

calculate_fee(fill_price, fill_size, is_maker) ==
    LET notional == RMul(fill_price, R(fill_size))
        fee_rate == IF is_maker THEN MAKER_FEE_RATE ELSE TAKER_FEE_RATE
    IN RMul(notional, fee_rate)

calculate_realized_pnl(entry_price, exit_price, size, is_long) ==
    IF is_long
    THEN RMul(RSub(exit_price, entry_price), R(size))
    ELSE RMul(RSub(entry_price, exit_price), R(size))

----------------------------------------------------------------------------
(* PortfolioTracker                                                        *)
(* The tracker is the record                                               *)
(*   [balance, open_orders, open_positions, total_trades, winning_trades,  *)
(*    total_fees_paid, peak_balance, max_drawdown].                        *)
(* open_orders and open_positions are Python dicts; the model keeps them   *)
(* as sequences in insertion order, the order in which list(d.values())    *)
(* yields them.  initial_balance and max_leverage never change.            *)

\* PaperTradingExchange.__init__ defaults
InitialBalance == 1000
MaxLeverage == 5

PortfolioInit ==
    [balance |-> R(InitialBalance),
     open_orders |-> <<>>,
     open_positions |-> <<>>,
     total_trades |-> 0,
     winning_trades |-> 0,
     total_fees_paid |-> R(0),
     peak_balance |-> R(InitialBalance),
     max_drawdown |-> R(0)]

Order(id, side, size, price) == [id |-> id, side |-> side, size |-> size, price |-> price]

Position(side, size, entry_price) == [side |-> side, size |-> size, entry_price |-> entry_price]

\* index of the entry with the given key in a dict kept as a sequence, 0 if absent
OrderIndex(orders, order_id) ==
    IF \E i \in 1..Len(orders) : orders[i].id = order_id
    THEN CHOOSE i \in 1..Len(orders) : orders[i].id = order_id
    ELSE 0

PositionIndex(positions, side) ==
    IF \E i \in 1..Len(positions) : positions[i].side = side
    THEN CHOOSE i \in 1..Len(positions) : positions[i].side = side
    ELSE 0

\* del d[key]
Without(seq, i) == [j \in 1..(Len(seq) - 1) |-> IF j < i THEN seq[j] ELSE seq[j + 1]]

\* an assignment that adds an entry even when the key is present
PutAppends(seq, i, value) == Append(seq, value)

\* d[key] = value: in place when the key is present, appended otherwise
Put(seq, i, value) == IF i = 0 THEN Append(seq, value) ELSE [seq EXCEPT ![i] = value]

add_order(p, order) ==
    [p EXCEPT !.open_orders = Put(p.open_orders, OrderIndex(p.open_orders, order.id), order)]

\* the tracker after open_orders.pop(order_id, None)
remove_order(p, order_id) ==
    LET i == OrderIndex(p.open_orders, order_id)
    IN IF i = 0 THEN p ELSE [p EXCEPT !.open_orders = Without(p.open_orders, i)]

get_order(p, order_id) ==
    LET i == OrderIndex(p.open_orders, order_id)
    IN IF i = 0 THEN None ELSE Some(p.open_orders[i])

get_position(p, side) ==
    LET i == PositionIndex(p.open_positions, side)
    IN IF i = 0 THEN None ELSE Some(p.open_positions[i])

UpdatePositionKeepsEmpty(p, side, size, entry_price, realized_pnl) ==
    LET i == PositionIndex(p.open_positions, side)
    IN [p EXCEPT !.open_positions = Put(p.open_positions, i, Position(side, size, entry_price)),
                 !.balance = IF realized_pnl # R(0) THEN RAdd(p.balance, realized_pnl)
                             ELSE p.balance]

\* update_position without the "if realized_pnl != 0" block
UpdatePositionIgnoresPnl(p, side, size, entry_price, realized_pnl) ==
    LET i == PositionIndex(p.open_positions, side)
    IN [p EXCEPT !.open_positions =
                    IF size = 0
                    THEN (IF i # 0 THEN Without(p.open_positions, i) ELSE p.open_positions)
                    ELSE Put(p.open_positions, i, Position(side, size, entry_price))]

update_position(p, side, size, entry_price, realized_pnl) ==
    LET i == PositionIndex(p.open_positions, side)
    IN [p EXCEPT !.open_positions =
                    IF size = 0
                    THEN (IF i # 0 THEN Without(p.open_positions, i) ELSE p.open_positions)
                    ELSE Put(p.open_positions, i, Position(side, size, entry_price)),
                 !.balance = IF realized_pnl # R(0) THEN RAdd(p.balance, realized_pnl)
                             ELSE p.balance]

ApplyFeeTwice(p, fee_amount) ==
    [p EXCEPT !.balance = RSub(RSub(p.balance, fee_amount), fee_amount),
              !.total_fees_paid = RAdd(p.total_fees_paid, fee_amount)]

\* apply_fee that books a rebate as a fee paid
ApplyFeeAbsolute(p, fee_amount) ==
    [p EXCEPT !.balance = RSub(p.balance, fee_amount),
              !.total_fees_paid = RAdd(p.total_fees_paid,
                                       IF RLt(fee_amount, R(0)) THEN RNeg(fee_amount)
                                       ELSE fee_amount)]

apply_fee(p, fee_amount) ==
    [p EXCEPT !.balance = RSub(p.balance, fee_amount),
              !.total_fees_paid = RAdd(p.total_fees_paid, fee_amount)]

RECURSIVE SumPositionValue(_, _)
SumPositionValue(positions, mark_price) ==
    IF positions = <<>> THEN R(0)
    ELSE RAdd(RMul(R(Abs(Head(positions).size)), mark_price),
              SumPositionValue(Tail(positions), mark_price))

get_total_position_value(p, mark_price) == SumPositionValue(p.open_positions, mark_price)

RECURSIVE SumUnrealized(_, _)
SumUnrealized(positions, mark_price) ==
    IF positions = <<>> THEN R(0)
    ELSE LET position == Head(positions)
             pnl == IF position.side = LONG
                    THEN RMul(RSub(mark_price, position.entry_price), R(position.size))
                    ELSE RMul(RSub(position.entry_price, mark_price), R(position.size))
         IN RAdd(pnl, SumUnrealized(Tail(positions), mark_price))

get_unrealized_pnl(p, mark_price) == SumUnrealized(p.open_positions, mark_price)

GetEquityBalanceOnly(p, mark_price) == p.balance

get_equity(p, mark_price) == RAdd(p.balance, get_unrealized_pnl(p, mark_price))

CanOpenIgnoresUsedMargin(p, size, price, mark_price) ==
    RLe(RDiv(RMul(R(size), price), R(MaxLeverage)), get_equity(p, mark_price))

can_open_position(p, size, price, mark_price) ==
    LET notional_value == RMul(R(size), price)
        required_margin == RDiv(notional_value, R(MaxLeverage))
        equity == get_equity(p, mark_price)
        position_value == get_total_position_value(p, mark_price)
        used_margin == RDiv(position_value, R(MaxLeverage))
        available_margin == RSub(equity, used_margin)
    IN RLe(required_margin, available_margin)

RecordTradeResetsPeak(p, profitable) ==
    [p EXCEPT !.total_trades = @ + 1,
              !.winning_trades = IF profitable THEN @ + 1 ELSE @,
              !.peak_balance = p.balance,
              !.max_drawdown = R(0)]

record_trade(p, profitable) ==
    LET peak == IF RLt(p.peak_balance, p.balance) THEN p.balance ELSE p.peak_balance
        current_drawdown == RDiv(RSub(peak, p.balance), peak)
    IN [p EXCEPT !.total_trades = @ + 1,
                 !.winning_trades = IF profitable THEN @ + 1 ELSE @,
                 !.peak_balance = peak,
                 !.max_drawdown = IF RLt(p.max_drawdown, current_drawdown)
                                  THEN current_drawdown ELSE p.max_drawdown]

----------------------------------------------------------------------------
(* PaperTradingExchange._process_fill                                      *)
(* The coroutine contains no suspension point (the trade logger is         *)
(* synchronous), so a call runs to completion without any other task       *)
(* running in between.                                                     *)

PositionSide(order_side) == IF order_side = BUY THEN LONG ELSE SHORT

OppositeSide(order_side) == IF order_side = BUY THEN SHORT ELSE LONG

\* the close without its record_trade call
ClosedWithoutRecord(p, opposite_side, opp, fill_size, close_size, realized_pnl) ==
    [p |-> update_position(p, opposite_side, opp.size - close_size, opp.entry_price,
                           realized_pnl),
     fill_size |-> fill_size - close_size,
     realized_pnl |-> realized_pnl,
     close_size |-> close_size]

\* the tail of "if opposite_position:" once realized_pnl is computed:
\* update_position, record_trade, "fill_size -= close_size"
ClosedWith(p, opposite_side, opp, fill_size, close_size, realized_pnl) ==
    [p |-> record_trade(update_position(p, opposite_side, opp.size - close_size,
                                        opp.entry_price, realized_pnl),
                        RLt(R(0), realized_pnl)),
     fill_size |-> fill_size - close_size,
     realized_pnl |-> realized_pnl,
     close_size |-> close_size]

\* the close with the PnL of the whole position, whatever part is closed
ClosePositionAtFullSize(p, opposite_side, opp, fill_price, fill_size, close_size) ==
    ClosedWith(p, opposite_side, opp, fill_size, close_size,
               calculate_realized_pnl(opp.entry_price, fill_price, opp.size,
                                      opposite_side = LONG))

\* the body of "if opposite_position:" for close_size = min(fill_size, opp.size)
ClosePosition(p, opposite_side, opp, fill_price, fill_size, close_size) ==
    ClosedWith(p, opposite_side, opp, fill_size, close_size,
               calculate_realized_pnl(opp.entry_price, fill_price, close_size,
                                      opposite_side = LONG))

\* _process_fill without its "if opposite_position:" block
CloseOppositeSkipped(p, opposite_side, opposite_position, fill_price, fill_size) ==
    [p |-> p, fill_size |-> fill_size, realized_pnl |-> R(0), close_size |-> 0]

\* "if opposite_position:": close, realize PnL, record the trade.  Returns
\* [p, fill_size, realized_pnl, close_size], fill_size being what is left
\* of the fill.
CloseOpposite(p, opposite_side, opposite_position, fill_price, fill_size) ==
    IF opposite_position # None
    THEN ClosePosition(p, opposite_side, The(opposite_position), fill_price, fill_size,
                       IMin(fill_size, The(opposite_position).size))
    ELSE [p |-> p, fill_size |-> fill_size, realized_pnl |-> R(0), close_size |-> 0]

OpenOrAddAtFillPrice(p, current_position, order_side, fill_price, fill_size) ==
    IF fill_size > 0
    THEN IF current_position # None
         THEN update_position(p, PositionSide(order_side),
                              The(current_position).size + fill_size, fill_price, R(0))
         ELSE update_position(p, PositionSide(order_side), fill_size, fill_price, R(0))
    ELSE p

\* "if fill_size > 0": open a position or add to current_position (the
\* position of the fill's own side as read at the start of _process_fill)
OpenOrAdd(p, current_position, order_side, fill_price, fill_size) ==
    IF fill_size > 0
    THEN IF current_position # None
         THEN LET cur == The(current_position)
                  total_size == cur.size + fill_size
                  avg_entry == RDiv(RAdd(RMul(cur.entry_price, R(cur.size)),
                                         RMul(fill_price, R(fill_size))),
                                    R(total_size))
              IN update_position(p, PositionSide(order_side), total_size, avg_entry, R(0))
         ELSE update_position(p, PositionSide(order_side), fill_size, fill_price, R(0))
    ELSE p

\* "if fill_size > 0" after the close, closed being what CloseOpposite returned
OpenAfterClose(closed, current_position, order_side, fill_price) ==
    [p |-> OpenOrAdd(closed.p, current_position, order_side, fill_price, closed.fill_size),
     realized_pnl |-> closed.realized_pnl,
     close_size |-> closed.close_size,
     open_size |-> closed.fill_size]

\* Returns [p, realized_pnl, close_size, open_size].  Both positions are read
\* before anything is updated.
process_fill(p, order_side, fill_price, fill_size, is_maker) ==
    OpenAfterClose(CloseOpposite(p, OppositeSide(order_side),
                                 get_position(p, OppositeSide(order_side)),
                                 fill_price, fill_size),
                   get_position(p, PositionSide(order_side)),
                   order_side, fill_price)

----------------------------------------------------------------------------
(* history                                                                 *)

\* one _process_fill call: its arguments and the tracker before and after it
FillEvent(fid, side, price, size, before, after) ==
    [fid |-> fid, side |-> side, price |-> price, size |-> size,
     before |-> before, after |-> after]

\* fees: the fee of every fill whose fee was applied, summed from the fill's
\* price, size and maker flag; settled: the same sum over the fills that
\* _process_fill was called for; realized: the PnL of every closing fill,
\* summed from the closed position's entry price, the fill price and the
\* closed size; n_fees, n_fills: how many fees were applied and how many
\* _process_fill calls were made; n_closing: how many of these calls met a
\* position on the side opposite to the fill; n_winning: how many of those
\* realized a PnL above 0; started: the ids of the orders the loop began to
\* fill, in that order; last: the last _process_fill call
HistoryInit ==
    [fees |-> R(0), settled |-> R(0), realized |-> R(0), n_fees |-> 0, n_fills |-> 0,
     n_closing |-> 0, n_winning |-> 0, started |-> <<>>,
     last |-> FillEvent(0, BUY, R(0), 0, PortfolioInit, PortfolioInit)]

FeeOf(price, size, is_maker) ==
    IF is_maker THEN RDiv(RMul(RMul(price, R(size)), R(-2)), R(10000))
    ELSE RDiv(RMul(RMul(price, R(size)), R(5)), R(10000))

\* PnL realized by a fill against the positions held before it
RealizedOf(side, price, size, before) ==
    LET opp == get_position(before, IF side = BUY THEN SHORT ELSE LONG)
    IN IF opp = None THEN R(0)
       ELSE LET closed == IMin(size, The(opp).size)
            IN IF side = BUY
               THEN RMul(RSub(The(opp).entry_price, price), R(closed))
               ELSE RMul(RSub(price, The(opp).entry_price), R(closed))

\* a fill of that side meets a position it closes, wholly or in part
Closes(side, before) == get_position(before, IF side = BUY THEN SHORT ELSE LONG) # None

FeeApplied(h, price, size, is_maker) ==
    [h EXCEPT !.fees = RAdd(@, FeeOf(price, size, is_maker)), !.n_fees = @ + 1]

FillProcessed(h, fid, side, price, size, is_maker, before, after) ==
    [h EXCEPT !.settled = RAdd(@, FeeOf(price, size, is_maker)),
              !.realized = RAdd(@, RealizedOf(side, price, size, before)),
              !.n_fills = @ + 1,
              !.n_closing = IF Closes(side, before) THEN @ + 1 ELSE @,
              !.n_winning = IF RLt(R(0), RealizedOf(side, price, size, before))
                            THEN @ + 1 ELSE @,
              !.last = FillEvent(fid, side, price, size, before, after)]

----------------------------------------------------------------------------
(* PaperTradingExchange: the order API and the monitoring task             *)
(* asyncio runs one task at a time and switches tasks only at an await     *)
(* that suspends: simulate_fill_delay and the sleeps of _monitor_orders.   *)
(* Each action below is the code one task runs between two suspensions.    *)

\* Bounds of the model: open_limit_order and modify_limit_order calls that
\* take effect; open_market_order and close_all_positions calls of the
\* strategy that reach the latency wait.
MaxLimitCalls == 2
MaxMarketOrders == 1

\* terms of the limit orders the strategy places
LimitTerms ==
    { [side |-> BUY, size |-> 10, price |-> R(100)],
      [side |-> BUY, size |-> 30, price |-> R(100)],
      [side |-> BUY, size |-> 10, price |-> R(120)],
      [side |-> SELL, size |-> 30, price |-> R(100)] }

\* terms of the market orders the strategy places
MarketTerms ==
    { [side |-> side, size |-> 30, is_reduce |-> is_reduce] :
        side \in {BUY, SELL}, is_reduce \in BOOLEAN }
    \cup { [side |-> SELL, size |-> 10, is_reduce |-> FALSE] }

\* the strategy runs once setup() has been called (main.py)
Started == tasks # <<>>

\* Snapshots of the live book the real exchange can show
MarketNoAsk ==
    [buy_orders_list |-> << <<R(99), 20>> >>, sell_orders_list |-> <<>>, mark_price |-> None]

MarketLow ==
    [buy_orders_list |-> << <<R(99), 20>> >>,
     sell_orders_list |-> << <<R(100), 10>>, <<R(101), 30>> >>,
     mark_price |-> Some(R(100))]

MarketHigh ==
    [buy_orders_list |-> << <<R(119), 30>> >>,
     sell_orders_list |-> << <<R(120), 10>>, <<R(121), 30>> >>,
     mark_price |-> Some(R(120))]

Markets == {MarketNoAsk, MarketLow, MarketHigh}

\* float(orders_list[0][0]) if orders_list else None
BestPrice(orders_list) == IF orders_list = <<>> THEN None ELSE Some(LevelPrice(orders_list[1]))

\* "not x" for an Optional[float]: None and 0.0 are falsy
Falsy(opt) == opt = None \/ The(opt) = R(0)

\* no call of a simulator function on its own is being looked at
SimIdle == [op |-> "idle"]

Task(pc, fills, fid) == [pc |-> pc, fills |-> fills, fid |-> fid]

CloserIdle == [pc |-> "idle", critical |-> FALSE, queue |-> <<>>, order |-> None]

Init ==
    /\ portfolio = PortfolioInit
    /\ market \in Markets
    /\ monitoring = FALSE
    /\ monitor_task = 0
    /\ tasks = <<>>
    /\ inflight = EmptyBag
    /\ closer = CloserIdle
    /\ issued = [orders |-> 0, markets |-> 0, modifies |-> 0, fills |-> 0]
    /\ history = HistoryInit
    /\ sim = SimIdle

\* the real exchange publishes another book
MarketData ==
    /\ market' \in Markets \ {market}
    /\ UNCHANGED <<portfolio, monitoring, monitor_task, tasks, inflight, closer, issued,
                   history, sim>>

\* setup(): at most max_tasks monitoring tasks are ever created
Setup(max_tasks) ==
    /\ Len(tasks) < max_tasks
    /\ monitoring' = TRUE
    /\ tasks' = Append(tasks, Task("sleep", <<>>, 0))
    /\ monitor_task' = Len(tasks) + 1
    /\ UNCHANGED <<portfolio, market, inflight, closer, issued, history, sim>>

----------------------------------------------------------------------------
(* strategy calls that do not suspend                                      *)

\* open_limit_order: the tracker afterwards (unchanged when rejected)
OpenLimitOrderUnchecked(p, mkt, order_id, order_side, order_size, price, is_reduce) ==
    add_order(p, Order(order_id, order_side, order_size, price))

open_limit_order(p, mkt, order_id, order_side, order_size, price, is_reduce) ==
    LET mark_price_float == IF ~Falsy(mkt.mark_price) THEN The(mkt.mark_price) ELSE price
        can_open == can_open_position(p, order_size, price, mark_price_float)
    IN IF ~is_reduce /\ ~can_open
       THEN p
       ELSE add_order(p, Order(order_id, order_side, order_size, price))

\* one open_limit_order call with the given arguments; uuid4: an id is
\* consumed only when an order is created
PlaceLimitOrder(terms, is_reduce) ==
    /\ portfolio' = open_limit_order(portfolio, market, issued.orders + 1, terms.side,
                                     terms.size, terms.price, is_reduce)
    /\ issued' = IF portfolio' = portfolio THEN issued
                 ELSE [issued EXCEPT !.orders = @ + 1]
    /\ UNCHANGED <<market, monitoring, monitor_task, tasks, inflight, closer, history, sim>>

OpenLimitOrder ==
    /\ Started
    /\ issued.orders + issued.modifies < MaxLimitCalls
    /\ \E terms \in LimitTerms, is_reduce \in BOOLEAN : PlaceLimitOrder(terms, is_reduce)

ModifyLimitOrderUpserts(p, order_id, order_side, order_size, price) ==
    add_order(remove_order(p, order_id), Order(order_id, order_side, order_size, price))

\* modify_limit_order: the tracker afterwards (unchanged when the id is not resting)
modify_limit_order(p, order_id, order_side, order_size, price) ==
    IF get_order(p, order_id) = None
    THEN p
    ELSE add_order(remove_order(p, order_id), Order(order_id, order_side, order_size, price))

\* one modify_limit_order call with the given arguments
ModifyOrder(order_id, terms) ==
    /\ portfolio' = modify_limit_order(portfolio, order_id, terms.side, terms.size,
                                       terms.price)
    /\ issued' = IF portfolio' = portfolio THEN issued
                 ELSE [issued EXCEPT !.modifies = @ + 1]
    /\ UNCHANGED <<market, monitoring, monitor_task, tasks, inflight, closer, history, sim>>

ModifyLimitOrder ==
    /\ Started
    /\ issued.orders + issued.modifies < MaxLimitCalls
    /\ \E order_id \in 1..issued.orders, terms \in LimitTerms : ModifyOrder(order_id, terms)

\* cancel_all_orders that keeps the oldest of several resting orders
CancelAllOrdersKeepsFirst(p) ==
    [p EXCEPT !.open_orders = IF Len(@) > 1 THEN <<@[1]>> ELSE <<>>]

cancel_all_orders(p) == [p EXCEPT !.open_orders = <<>>]

CancelAllOrders ==
    /\ Started
    /\ portfolio' = cancel_all_orders(portfolio)
    /\ UNCHANGED <<market, monitoring, monitor_task, tasks, inflight, closer, issued,
                   history, sim>>

----------------------------------------------------------------------------
(* open_market_order                                                       *)

MarketOrder(side, size, is_reduce, bid_price, ask_price) ==
    [side |-> side, size |-> size, is_reduce |-> is_reduce,
     bid_price |-> bid_price, ask_price |-> ask_price]

MarketOrderCheckNoMargin(p, mkt, order_side, order_size, is_reduce) ==
    IF Falsy(BestPrice(mkt.buy_orders_list)) \/ Falsy(BestPrice(mkt.sell_orders_list))
    THEN None
    ELSE Some(MarketOrder(order_side, order_size, is_reduce,
                          The(BestPrice(mkt.buy_orders_list)),
                          The(BestPrice(mkt.sell_orders_list))))

\* open_market_order up to "await self.simulator.simulate_fill_delay()":
\* None when the order is rejected, else the frame of the suspended call
market_order_check(p, mkt, order_side, order_size, is_reduce) ==
    LET bid_price == BestPrice(mkt.buy_orders_list)
        ask_price == BestPrice(mkt.sell_orders_list)
    IN IF Falsy(bid_price) \/ Falsy(ask_price)
       THEN None
       ELSE LET mark_price_float ==
                    IF ~Falsy(mkt.mark_price) THEN The(mkt.mark_price)
                    ELSE RDiv(RAdd(The(bid_price), The(ask_price)), R(2))
                can_open == can_open_position(p, order_size,
                                              IF order_side = BUY THEN The(ask_price)
                                              ELSE The(bid_price),
                                              mark_price_float)
            IN IF ~is_reduce /\ ~can_open
               THEN None
               ELSE Some(MarketOrder(order_side, order_size, is_reduce,
                                     The(bid_price), The(ask_price)))

\* open_market_order after apply_fee: _process_fill.  fill is
\* <<fill_price, fill_size>>, p1 the tracker with the fee applied.
market_order_fill(p1, call, fill) ==
    [p |-> process_fill(p1, call.side, fill[1], fill[2], FALSE).p,
     fill_price |-> fill[1], fill_size |-> fill[2], before |-> p1]

\* open_market_order after simulate_market_order_fill: calculate_fee, apply_fee
market_order_fee(p, call, fill) ==
    market_order_fill(apply_fee(p, calculate_fee(fill[1], fill[2], FALSE)), call, fill)

\* open_market_order after the delay: the fill is computed from the book as
\* it is now and from the best prices read before the delay; the fee, then
\* _process_fill.  Returns [p, fill_price, fill_size, before].
market_order_apply(p, mkt, call) ==
    market_order_fee(p, call,
                     simulate_market_order_fill(call.side, call.size, call.bid_price,
                                                call.ask_price, mkt.buy_orders_list,
                                                mkt.sell_orders_list))

\* the history after a market order was applied as fill number fid
MarketHistory(h, fid, call, applied) ==
    FillProcessed(FeeApplied(h, applied.fill_price, applied.fill_size, FALSE),
                  fid, call.side, applied.fill_price, applied.fill_size, FALSE,
                  applied.before, applied.p)

\* one open_market_order call with the given arguments, up to its latency
\* wait or its return of None
PlaceMarketOrder(terms) ==
    /\ IF market_order_check(portfolio, market, terms.side, terms.size, terms.is_reduce) = None
       THEN UNCHANGED <<inflight, issued>>
       ELSE /\ inflight' = inflight (+)
                    SetToBag({The(market_order_check(portfolio, market, terms.side,
                                                     terms.size, terms.is_reduce))})
            /\ issued' = [issued EXCEPT !.markets = @ + 1]
    /\ UNCHANGED <<portfolio, market, monitoring, monitor_task, tasks, closer, history, sim>>

OpenMarketOrder ==
    /\ Started
    /\ issued.markets < MaxMarketOrders
    /\ \E terms \in MarketTerms : PlaceMarketOrder(terms)

\* the tracker and the history take what market_order_apply returned
MarketFillApplied(call, applied) ==
    /\ portfolio' = applied.p
    /\ history' = MarketHistory(history, issued.fills + 1, call, applied)
    /\ issued' = [issued EXCEPT !.fills = @ + 1]

MarketOrderResume ==
    /\ \E call \in BagToSet(inflight) :
          /\ MarketFillApplied(call, market_order_apply(portfolio, market, call))
          /\ inflight' = inflight (-) SetToBag({call})
    /\ UNCHANGED <<market, monitoring, monitor_task, tasks, closer, sim>>

----------------------------------------------------------------------------
(* close_all_positions and critical_close_all                              *)

\* critical_close_all from "self._monitoring = False" on: the task held in
\* _monitor_task is cancelled.  CancelledError is raised at the await the
\* task is suspended in; "except Exception" does not catch it, so the task
\* ends there with its frame as it stands and runs no further statement.
StopMonitoring(ts, task) ==
    IF task # 0 /\ ts[task].pc \in {"sleep", "cooldown", "delay"}
    THEN [ts EXCEPT ![task].pc = "cancelled"]
    ELSE ts

\* the order close_all_positions places for a position of its snapshot
ClosingOrder(position) ==
    [side |-> IF position.side = LONG THEN SELL ELSE BUY, size |-> position.size]

\* close_all_positions once open_market_order was called for the head of
\* queue, call being that call's frame or None
close_all_called(call, queue, critical) ==
    IF call = None
    THEN [pc |-> IF critical THEN "returned" ELSE "idle", critical |-> critical,
          queue |-> <<>>, order |-> None]
    ELSE [pc |-> "delay", critical |-> critical, queue |-> Tail(queue), order |-> call]

\* close_all_positions from the head of queue (the positions of the snapshot
\* not yet closed) up to the next suspension or its return.  A reduce-only
\* market order is rejected only for lack of market data, which then holds
\* for every later position of the snapshot too, as no other task runs in
\* between.  Yields the closer record; p is not changed by this stretch.
close_all_from(p, mkt, queue, critical) ==
    close_all_called(IF queue = <<>> THEN None
                     ELSE market_order_check(p, mkt, ClosingOrder(Head(queue)).side,
                                             ClosingOrder(Head(queue)).size, TRUE),
                     queue, critical)

\* what follows close_all_positions in its caller: critical_close_all goes on
\* to "self._monitoring = False" and cancels the task
AfterClose(c) ==
    /\ closer' = c
    /\ IF c.pc = "returned"
       THEN /\ monitoring' = FALSE
            /\ tasks' = StopMonitoring(tasks, monitor_task)
       ELSE UNCHANGED <<monitoring, tasks>>

\* a call that closes nothing returns at once and leaves every field as it was
CloseAllPositions ==
    /\ Started
    /\ closer.pc = "idle"
    /\ issued.markets < MaxMarketOrders
    /\ close_all_from(portfolio, market, portfolio.open_positions, FALSE).pc = "delay"
    /\ closer' = close_all_from(portfolio, market, portfolio.open_positions, FALSE)
    /\ issued' = [issued EXCEPT !.markets = @ + 1]
    /\ UNCHANGED <<portfolio, market, monitoring, monitor_task, tasks, inflight,
                   history, sim>>

CriticalCloseAll ==
    /\ Started
    /\ closer.pc = "idle"
    /\ portfolio' = cancel_all_orders(portfolio)
    /\ AfterClose(close_all_from(cancel_all_orders(portfolio), market,
                                 portfolio.open_positions, TRUE))
    /\ UNCHANGED <<market, monitor_task, inflight, issued, history, sim>>

\* the closing order in hand is applied, then close_all_positions goes on
CloserApplied(call, applied) ==
    /\ MarketFillApplied(call, applied)
    /\ AfterClose(close_all_from(applied.p, market, closer.queue, closer.critical))

CloserResume ==
    /\ closer.pc = "delay"
    /\ CloserApplied(The(closer.order),
                     market_order_apply(portfolio, market, The(closer.order)))
    /\ UNCHANGED <<market, monitor_task, inflight, sim>>

----------------------------------------------------------------------------
(* _monitor_orders                                                         *)
(* A task is [pc, fills, fid].  pc is "sleep" (created and not yet run, or *)
(* in one of the asyncio.sleep calls between iterations), "cooldown" (in   *)
(* the asyncio.sleep(1) of the exception handler), "delay" (in             *)
(* simulate_fill_delay inside "for order, (...) in orders_to_fill"),       *)
(* "finished" (left the while loop) or "cancelled".  fills is what is left *)
(* of orders_to_fill, the entry being processed first; fid numbers that    *)
(* entry in the history.                                                   *)

\* a pass that finds no order to fill
OrdersToFillNone(orders, mkt) == <<>>

\* "for order in list(open_orders.values())": the orders with a fill result,
\* each with that result
RECURSIVE orders_to_fill(_, _)
orders_to_fill(orders, mkt) ==
    IF orders = <<>> THEN <<>>
    ELSE LET order == Head(orders)
             fill_result == check_limit_order_fill(order,
                                The(BestPrice(mkt.buy_orders_list)),
                                The(BestPrice(mkt.sell_orders_list)),
                                mkt.buy_orders_list, mkt.sell_orders_list)
             rest == orders_to_fill(Tail(orders), mkt)
         IN IF fill_result # None
            THEN <<[order |-> order, fill |-> The(fill_result)]>> \o rest
            ELSE rest

LoopFee(entry) == calculate_fee(entry.fill.price, entry.fill.size, entry.fill.is_maker)

\* the loop body up to the delay: remove_order (its result is not looked
\* at), calculate_fee, apply_fee
begin_fill(p, entry) == apply_fee(remove_order(p, entry.order.id), LoopFee(entry))

BeginHistory(h, fid, entry) ==
    [FeeApplied(h, entry.fill.price, entry.fill.size, entry.fill.is_maker)
        EXCEPT !.started = Append(@, entry.order.id)]

\* _process_fill called with the size of the order instead of the fill's
FinishFillOrderSize(p, entry) ==
    process_fill(p, entry.order.side, entry.fill.price, entry.order.size, entry.fill.is_maker).p

\* the loop body after the delay: _process_fill with the terms of the entry
finish_fill(p, entry) ==
    process_fill(p, entry.order.side, entry.fill.price, entry.fill.size, entry.fill.is_maker).p

FinishHistory(h, fid, entry, before, after) ==
    FillProcessed(h, fid, entry.order.side, entry.fill.price, entry.fill.size,
                  entry.fill.is_maker, before, after)

\* the pcs of a task suspended between two iterations: "sleep" in
\* asyncio.sleep(0.1) or asyncio.sleep(0.05), "cooldown" in the
\* asyncio.sleep(1) of the exception handler
Waiting == {"sleep", "cooldown"}

\* "for order, (...) in orders_to_fill" up to its first suspension: the
\* tracker and the task's frame at that point
iteration_fills(p, fills, fid) ==
    IF fills = <<>>
    THEN \* await asyncio.sleep(0.05)
         [p |-> p, task |-> Task("sleep", <<>>, 0)]
    ELSE [p |-> begin_fill(p, fills[1]), task |-> Task("delay", fills, fid)]

\* a pass that leaves the loop when a side of the book is empty
MonitorIterationGivesUp(p, mkt, running, fid) ==
    IF ~running \/ mkt.buy_orders_list = <<>> \/ mkt.sell_orders_list = <<>>
    THEN [p |-> p, task |-> Task("finished", <<>>, 0)]
    ELSE iteration_fills(p, orders_to_fill(p.open_orders, mkt), fid)

\* one pass of "while self._monitoring" from its top to the first
\* suspension, no statement of it raising
monitor_iteration(p, mkt, running, fid) ==
    IF ~running
    THEN [p |-> p, task |-> Task("finished", <<>>, 0)]
    ELSE IF mkt.buy_orders_list = <<>> \/ mkt.sell_orders_list = <<>>
    THEN \* await asyncio.sleep(0.1); continue
         [p |-> p, task |-> Task("sleep", <<>>, 0)]
    ELSE iteration_fills(p, orders_to_fill(p.open_orders, mkt), fid)

\* task t made the pass whose outcome is pass
MonitorPass(t, pass) ==
    /\ portfolio' = pass.p
    /\ tasks' = [tasks EXCEPT ![t] = pass.task]
    /\ IF pass.task.pc = "delay"
       THEN /\ issued' = [issued EXCEPT !.fills = pass.task.fid]
            /\ history' = BeginHistory(history, pass.task.fid, pass.task.fills[1])
       ELSE UNCHANGED <<issued, history>>
    /\ UNCHANGED <<market, monitoring, monitor_task, inflight, closer, sim>>

MonitorIteration ==
    \E t \in 1..Len(tasks) :
        /\ tasks[t].pc \in Waiting
        /\ MonitorPass(t, monitor_iteration(portfolio, market, monitoring, issued.fills + 1))

\* from the end of simulate_fill_delay to the next suspension: _process_fill
\* for the entry in hand, then either the next entry up to its delay or the
\* sleep that ends the iteration
MonitorResume ==
    \E t \in 1..Len(tasks) :
        /\ tasks[t].pc = "delay"
        /\ LET entry == tasks[t].fills[1]
               rest == Tail(tasks[t].fills)
               p1 == finish_fill(portfolio, entry)
               h1 == FinishHistory(history, tasks[t].fid, entry, portfolio, p1)
               fid == issued.fills + 1
           IN IF rest = <<>>
              THEN /\ portfolio' = p1
                   /\ history' = h1
                   /\ tasks' = [tasks EXCEPT ![t] = Task("sleep", <<>>, 0)]
                   /\ UNCHANGED issued
              ELSE /\ portfolio' = begin_fill(p1, rest[1])
                   /\ history' = BeginHistory(h1, fid, rest[1])
                   /\ tasks' = [tasks EXCEPT ![t] = Task("delay", rest, fid)]
                   /\ issued' = [issued EXCEPT !.fills = fid]
        /\ UNCHANGED <<market, monitoring, monitor_task, inflight, closer, sim>>

\* an exception that no handler catches ends the task with that exception
ExceptionUncaught(p) == [p |-> p, task |-> Task("failed", <<>>, 0)]

\* "except Exception as e": logger.error, then await asyncio.sleep(1); the
\* while condition is evaluated next
except_exception(p) == [p |-> p, task |-> Task("cooldown", <<>>, 0)]

\* a pass in which reading the book of the real exchange raises (the
\* properties and the float() conversions of the pass, all inside "try" and
\* before any order is removed)
MonitorRaise ==
    \E t \in 1..Len(tasks) :
        /\ tasks[t].pc \in Waiting
        /\ monitoring
        /\ MonitorPass(t, except_exception(portfolio))

----------------------------------------------------------------------------

Next ==
    \/ MarketData
    \/ Setup(1)
    \/ OpenLimitOrder
    \/ ModifyLimitOrder
    \/ CancelAllOrders
    \/ OpenMarketOrder
    \/ MarketOrderResume
    \/ CloseAllPositions
    \/ CriticalCloseAll
    \/ CloserResume
    \/ MonitorIteration
    \/ MonitorResume

Spec == Init /\ [][Next]_vars

----------------------------------------------------------------------------
(* Properties of the ledger under Spec                                     *)

\* fills whose fee was applied and whose _process_fill call was not made:
\* the entry a monitoring task holds while in, or cancelled in, its latency wait
PendingFills ==
    Cardinality({t \in 1..Len(tasks) : tasks[t].pc \in {"delay", "cancelled"}
                                        /\ tasks[t].fills # <<>>})

LastFill == history.last

\* the positions the last _process_fill call found and left
LastOpposite == get_position(LastFill.before, OppositeSide(LastFill.side))

LastCurrent == get_position(LastFill.before, PositionSide(LastFill.side))

LastOppositeAfter == get_position(LastFill.after, OppositeSide(LastFill.side))

LastCurrentAfter == get_position(LastFill.after, PositionSide(LastFill.side))

C2_AsStated ==
    closer.pc = "returned" => PendingFills = 0

\* C3: a fill larger than the opposite-side position it meets removes that
\* position, adds the PnL of the closed size (from the position's entry price
\* and the fill price) to the balance, and leaves on the fill's own side a
\* position of fill size minus closed size at the fill price; the tracker
\* never holds positions on both sides.
C3_FillExceedingOpposite ==
    /\ Len(portfolio.open_positions) <= 1
    /\ (history.n_fills > 0 /\ LastOpposite # None /\ LastFill.size > The(LastOpposite).size)
       => /\ LastOppositeAfter = None
          /\ LastFill.after.balance =
                 RAdd(LastFill.before.balance,
                      RMul(IF LastFill.side = SELL
                           THEN RSub(LastFill.price, The(LastOpposite).entry_price)
                           ELSE RSub(The(LastOpposite).entry_price, LastFill.price),
                           R(The(LastOpposite).size)))
          /\ LastCurrentAfter =
                 Some(Position(PositionSide(LastFill.side),
                               LastFill.size - The(LastOpposite).size, LastFill.price))
          /\ Len(LastFill.after.open_positions) = 1

C3_Witness ==
    /\ history.n_fills > 0
    /\ LastOpposite # None
    /\ LastFill.size > The(LastOpposite).size
    /\ LastFill.after.balance # LastFill.before.balance

\* C4: a fill that meets a position on its own side and none on the opposite
\* side leaves a position of size oldSize + addSize at entry price
\* (oldSize*oldEntry + addSize*fillPrice) / (oldSize + addSize), and
\* _process_fill leaves the balance as it found it; LONG 10 at 100 plus 10 at
\* 120 gives LONG 20 at 110.
C4_AddToPosition ==
    (history.n_fills > 0 /\ LastCurrent # None /\ LastOpposite = None /\ LastFill.size > 0)
    => /\ LastCurrentAfter # None
       /\ The(LastCurrentAfter).size = The(LastCurrent).size + LastFill.size
       /\ The(LastCurrentAfter).entry_price =
              RDiv(RAdd(RMul(R(The(LastCurrent).size), The(LastCurrent).entry_price),
                        RMul(R(LastFill.size), LastFill.price)),
                   R(The(LastCurrent).size + LastFill.size))
       /\ LastFill.after.balance = LastFill.before.balance
       /\ (/\ LastCurrent = Some(Position(LONG, 10, R(100)))
           /\ LastFill.size = 10
           /\ LastFill.price = R(120))
          => LastCurrentAfter = Some(Position(LONG, 20, R(110)))

\* LONG 10 at 100 was added to by a fill of 10 at 120
C4_Witness ==
    /\ history.n_fills > 0
    /\ LastOpposite = None
    /\ LastCurrent = Some(Position(LONG, 10, R(100)))
    /\ LastFill.size = 10
    /\ LastFill.price = R(120)
    /\ LastCurrentAfter = Some(Position(LONG, 20, R(110)))

\* C15: peak_balance and max_drawdown never decrease; a step changes them
\* only if it runs record_trade; and right after a _process_fill call that
\* ran record_trade, peak_balance >= balance and
\* max_drawdown >= (peak_balance - balance) / peak_balance.
C15_PeakAndDrawdown ==
    /\ [][/\ RLe(portfolio.peak_balance, portfolio'.peak_balance)
          /\ RLe(portfolio.max_drawdown, portfolio'.max_drawdown)
          /\ (\/ portfolio'.peak_balance # portfolio.peak_balance
              \/ portfolio'.max_drawdown # portfolio.max_drawdown)
             => portfolio'.total_trades > portfolio.total_trades]_vars
    /\ [](LastFill.after.total_trades > LastFill.before.total_trades
          => /\ RLe(LastFill.after.balance, LastFill.after.peak_balance)
             /\ RLe(RDiv(RSub(LastFill.after.peak_balance, LastFill.after.balance),
                         LastFill.after.peak_balance),
                    LastFill.after.max_drawdown))

\* a profitable close raised the peak and a later losing close set a drawdown
C15_Witness ==
    /\ portfolio.total_trades >= 2
    /\ RLt(R(InitialBalance), portfolio.peak_balance)
    /\ RLt(R(0), portfolio.max_drawdown)
    /\ LastFill.after.total_trades > LastFill.before.total_trades

\* the ids of the resting orders
RestingIds(p) == { p.open_orders[i].id : i \in 1..Len(p.open_orders) }

\* open_limit_order(terms, is_reduce) called now would find the margin short
MarginShort(terms) ==
    ~can_open_position(portfolio, terms.size, terms.price,
                       IF Falsy(market.mark_price) THEN terms.price
                       ELSE The(market.mark_price))

\* C16: open_limit_order that is not reduce-only and finds the margin
\* insufficient leaves the whole ledger as it was and creates no order;
\* otherwise, and always when reduce-only, it adds exactly one order under an
\* id no resting order has, with the given side, size and price, in one step,
\* and changes nothing else of the ledger.
C16_OpenLimitOrder ==
    /\ [](\A terms \in LimitTerms :
            MarginShort(terms)
            => open_limit_order(portfolio, market, issued.orders + 1, terms.side,
                                terms.size, terms.price, FALSE) = portfolio)
    /\ [][\A terms \in LimitTerms, is_reduce \in BOOLEAN :
            (issued'.orders # issued.orders /\ PlaceLimitOrder(terms, is_reduce))
            => /\ is_reduce \/ ~MarginShort(terms)
               /\ portfolio' =
                     [portfolio EXCEPT !.open_orders =
                         Append(@, Order(issued'.orders, terms.side, terms.size, terms.price))]
               /\ issued'.orders \notin RestingIds(portfolio)
               /\ Cardinality(RestingIds(portfolio')) = Len(portfolio.open_orders) + 1]_vars

\* an order rests, placed while a position was held, and a further order of
\* size 30 would be rejected for margin
C16_Witness ==
    /\ portfolio.open_orders # <<>>
    /\ portfolio.open_positions # <<>>
    /\ \E terms \in LimitTerms : MarginShort(terms)
    /\ issued.orders + issued.modifies < MaxLimitCalls

\* books with the bid side, or both sides, empty
MarketNoBid ==
    [buy_orders_list |-> <<>>, sell_orders_list |-> << <<R(100), 10>> >>,
     mark_price |-> Some(R(100))]

MarketEmpty == [buy_orders_list |-> <<>>, sell_orders_list |-> <<>>, mark_price |-> None]

\* the best bid or the best ask of the book is absent
NoBestPrice(mkt) == mkt.buy_orders_list = <<>> \/ mkt.sell_orders_list = <<>>

\* can_open_position for a market order on a book with both sides: at the
\* ask for BUY, at the bid for SELL
MarketMarginShort(mkt, terms) ==
    ~can_open_position(portfolio, terms.size,
                       IF terms.side = BUY THEN LevelPrice(mkt.sell_orders_list[1])
                       ELSE LevelPrice(mkt.buy_orders_list[1]),
                       IF Falsy(mkt.mark_price)
                       THEN RDiv(RAdd(LevelPrice(mkt.buy_orders_list[1]),
                                      LevelPrice(mkt.sell_orders_list[1])), R(2))
                       ELSE The(mkt.mark_price))

\* open_market_order(terms) called on book mkt is to return None
MarketOrderRefused(mkt, terms) ==
    NoBestPrice(mkt) \/ (~terms.is_reduce /\ MarketMarginShort(mkt, terms))

\* C17: open_market_order returns None, suspends nowhere and leaves the
\* ledger as it was when the best bid or the best ask is absent, and when it
\* is not reduce-only and can_open_position (at the ask for BUY, at the bid
\* for SELL) is false; no call changes the ledger before its latency wait.
C17_MarketOrderRejected ==
    /\ [](\A terms \in MarketTerms, mkt \in Markets \cup {MarketNoBid, MarketEmpty} :
            MarketOrderRefused(mkt, terms)
            => market_order_check(portfolio, mkt, terms.side, terms.size, terms.is_reduce)
                  = None)
    /\ [][\A terms \in MarketTerms :
            (issued'.markets # issued.markets /\ PlaceMarketOrder(terms))
            => /\ ~MarketOrderRefused(market, terms)
               /\ portfolio' = portfolio
               /\ history' = history]_vars

\* a position is held, the book has both sides, and a market order that is
\* not reduce-only would be refused for margin
C17_Witness ==
    /\ Started
    /\ issued.markets < MaxMarketOrders
    /\ portfolio.open_positions # <<>>
    /\ ~NoBestPrice(market)
    /\ \E terms \in MarketTerms : ~terms.is_reduce /\ MarketMarginShort(market, terms)

\* C18: modify_limit_order on an id that is not resting leaves the ledger as
\* it was; on a resting id it replaces that order by one with the same id and
\* the new side, size and price: the number of resting orders and the set of
\* their ids stay the same, and no other order or field changes.
C18_ModifyLimitOrder ==
    /\ [](\A order_id \in 1..MaxLimitCalls, terms \in LimitTerms :
            LET p1 == modify_limit_order(portfolio, order_id, terms.side, terms.size,
                                         terms.price)
            IN IF order_id \notin RestingIds(portfolio)
               THEN p1 = portfolio
               ELSE /\ get_order(p1, order_id)
                         = Some(Order(order_id, terms.side, terms.size, terms.price))
                    /\ Len(p1.open_orders) = Len(portfolio.open_orders)
                    /\ RestingIds(p1) = RestingIds(portfolio)
                    /\ \A other \in RestingIds(portfolio) \ {order_id} :
                          get_order(p1, other) = get_order(portfolio, other)
                    /\ [p1 EXCEPT !.open_orders = <<>>]
                         = [portfolio EXCEPT !.open_orders = <<>>])
    /\ [][\A order_id \in 1..MaxLimitCalls, terms \in LimitTerms :
            (issued'.modifies # issued.modifies /\ ModifyOrder(order_id, terms))
            => /\ order_id \in RestingIds(portfolio)
               /\ RestingIds(portfolio') = RestingIds(portfolio)
               /\ get_order(portfolio', order_id)
                    = Some(Order(order_id, terms.side, terms.size, terms.price))]_vars

\* an order was modified and still rests, and another id is not resting
C18_Witness ==
    /\ issued.modifies >= 1
    /\ portfolio.open_orders # <<>>
    /\ \E order_id \in 1..MaxLimitCalls : order_id \notin RestingIds(portfolio)

\* a monitoring task is still to run
LoopAlive == \E t \in 1..Len(tasks) : tasks[t].pc \in {"sleep", "cooldown", "delay"}

\* C19 as the specification states it: in the step in which
\* critical_close_all returns no order rests, no position is open and the
\* monitoring loop is stopped; from then on the loop applies no fee, no
\* position update and no trade record.
C19_AsStated ==
    /\ [][(closer.pc # "returned" /\ closer'.pc = "returned")
          => /\ portfolio'.open_orders = <<>>
             /\ portfolio'.open_positions = <<>>
             /\ ~monitoring'
             /\ ~LoopAlive']_vars
    /\ [][(closer.pc = "returned" /\ (MonitorIteration \/ MonitorResume))
          => portfolio' = portfolio]_vars

\* C20: cancel_all_orders empties the resting orders whatever they were and
\* leaves the balance, the positions, the fee total, the trade counters, the
\* peak and the drawdown as they were: for every reachable ledger, and in
\* every step in which the strategy calls it.
C20_CancelAllOrders ==
    /\ [](cancel_all_orders(portfolio) = [portfolio EXCEPT !.open_orders = <<>>])
    /\ [][CancelAllOrders
          => /\ portfolio'.open_orders = <<>>
             /\ portfolio'.balance = portfolio.balance
             /\ portfolio'.open_positions = portfolio.open_positions
             /\ portfolio'.total_fees_paid = portfolio.total_fees_paid
             /\ portfolio'.total_trades = portfolio.total_trades
             /\ portfolio'.winning_trades = portfolio.winning_trades
             /\ portfolio'.peak_balance = portfolio.peak_balance
             /\ portfolio'.max_drawdown = portfolio.max_drawdown
             /\ history' = history]_vars

\* two orders were placed, one fill at most removed one of them, no fill is
\* pending, no shutdown ran, a position is held and nothing rests: an order
\* was cancelled by cancel_all_orders
C20_Witness ==
    /\ closer = CloserIdle
    /\ issued.orders = 2
    /\ history.n_fills = 1
    /\ \A t \in 1..Len(tasks) : tasks[t].pc = "sleep" /\ tasks[t].fills = <<>>
    /\ inflight = EmptyBag
    /\ portfolio.open_positions # <<>>
    /\ portfolio.open_orders = <<>>

\* C24: record_trade runs exactly once in every _process_fill call that
\* meets a position on the opposite side and in no other call: total_trades
\* is the number of closing fills applied, winning_trades the number of
\* those whose realized PnL is above 0, and winning_trades <= total_trades.
C24_TradeCounters ==
    /\ portfolio.total_trades = history.n_closing
    /\ portfolio.winning_trades = history.n_winning
    /\ portfolio.winning_trades <= portfolio.total_trades
    /\ history.n_fills > 0
       => /\ LastFill.after.total_trades =
                 LastFill.before.total_trades + (IF LastOpposite # None THEN 1 ELSE 0)
          /\ LastFill.after.winning_trades =
                 LastFill.before.winning_trades +
                 (IF RLt(R(0), RealizedOf(LastFill.side, LastFill.price, LastFill.size,
                                          LastFill.before))
                  THEN 1 ELSE 0)

\* fills that opened or added and fills that closed were applied, one of the
\* closes with a gain and one without
C24_Witness ==
    /\ history.n_fills > history.n_closing
    /\ portfolio.total_trades >= 2
    /\ portfolio.winning_trades >= 1
    /\ portfolio.winning_trades < portfolio.total_trades

\* C25: the tracker holds at most one position per side and every position
\* it holds has a size above 0, in every reachable state and between the
\* statements of _process_fill's callers.
C25_PositionsPositive ==
    /\ \A i \in 1..Len(portfolio.open_positions) :
          /\ portfolio.open_positions[i].size > 0
          /\ \A j \in 1..Len(portfolio.open_positions) :
                portfolio.open_positions[i].side = portfolio.open_positions[j].side => i = j
    /\ \A i \in 1..Len(LastFill.after.open_positions) :
          LastFill.after.open_positions[i].size > 0

\* a fill of exactly the size of the opposite position removed it
C25_Witness ==
    /\ history.n_fills > 0
    /\ LastOpposite # None
    /\ LastFill.size = The(LastOpposite).size
    /\ LastFill.after.open_positions = <<>>

\* C29: a fill of at most the size of the opposite-side position it meets
\* leaves that position with its size reduced by the fill size and its entry
\* price kept (no position when the sizes are equal), adds the PnL of the
\* fill size to the balance, records one trade and leaves the fill's own
\* side as it was.
C29_FillWithinOpposite ==
    (/\ history.n_fills > 0
     /\ LastOpposite # None
     /\ LastFill.size > 0
     /\ LastFill.size <= The(LastOpposite).size)
    => /\ LastOppositeAfter =
              (IF LastFill.size = The(LastOpposite).size THEN None
               ELSE Some(Position(The(LastOpposite).side,
                                  The(LastOpposite).size - LastFill.size,
                                  The(LastOpposite).entry_price)))
       /\ LastFill.after.balance =
              RAdd(LastFill.before.balance,
                   RMul(IF LastFill.side = SELL
                        THEN RSub(LastFill.price, The(LastOpposite).entry_price)
                        ELSE RSub(The(LastOpposite).entry_price, LastFill.price),
                        R(LastFill.size)))
       /\ LastFill.after.total_trades = LastFill.before.total_trades + 1
       /\ LastCurrentAfter = LastCurrent

\* a position was closed in part at a price other than its entry price
C29_Witness ==
    /\ history.n_fills > 0
    /\ LastOpposite # None
    /\ LastFill.size > 0
    /\ LastFill.size < The(LastOpposite).size
    /\ LastFill.price # The(LastOpposite).entry_price

\* C23 as the specification states it: the step in which a market order
\* (of the strategy or of close_all_positions) enters its latency wait
\* changes nothing in the ledger, and the step in which a fill of the
\* monitoring loop enters its latency wait leaves that fill's order resting
\* and applies no fee.
C23_AsStated ==
    /\ [][issued'.markets # issued.markets
          => portfolio' = portfolio /\ history' = history]_vars
    /\ [][\A t \in 1..Len(tasks) :
            (tasks'[t].pc = "delay" /\ tasks'[t].fid # tasks[t].fid)
            => /\ get_order(portfolio', tasks'[t].fills[1].order.id) # None
               /\ history'.n_fees = history.n_fees]_vars

\* task t starts on an entry of its orders_to_fill in this step
StartsFill(t) == tasks'[t].pc = "delay" /\ tasks'[t].fid # tasks[t].fid

\* C32 as the specification states it: an order the loop removes and fills
\* rests in the ledger at the moment the loop removes it.
C32_AsStated ==
    [][\A t \in 1..Len(tasks) :
         StartsFill(t) => get_order(portfolio, tasks'[t].fills[1].order.id) # None]_vars

\* size of the position held on a side, 0 when there is none
PositionSize(p, side) ==
    IF get_position(p, side) = None THEN 0 ELSE The(get_position(p, side)).size

\* the margin check of open_market_order for an order read before the wait,
\* made on the tracker p and the mark price of the book mkt
MarginHolds(p, mkt, call) ==
    can_open_position(p, call.size,
                      IF call.side = BUY THEN call.ask_price ELSE call.bid_price,
                      IF ~Falsy(mkt.mark_price) THEN The(mkt.mark_price)
                      ELSE RDiv(RAdd(call.bid_price, call.ask_price), R(2)))

\* C34 as the specification states it: when a market order that is not
\* reduce-only has its fee and fill applied, can_open_position holds for it
\* on the ledger as it is at that moment.
C34_AsStated ==
    [][\A call \in BagToSet(inflight) :
         (/\ ~call.is_reduce
          /\ inflight' # inflight
          /\ MarketFillApplied(call, market_order_apply(portfolio, market, call)))
         => MarginHolds(portfolio, market, call)]_vars

\* C38 as the specification states it: when a reduce-only market order, of
\* the strategy or of close_all_positions, is applied, the position on the
\* order's own side is no larger afterwards than before.
C38_AsStated ==
    /\ [][\A call \in BagToSet(inflight) :
            (/\ call.is_reduce
             /\ inflight' # inflight
             /\ MarketFillApplied(call, market_order_apply(portfolio, market, call)))
            => PositionSize(portfolio', PositionSide(call.side)) <=
               PositionSize(portfolio, PositionSide(call.side))]_vars
    /\ [][(closer.pc = "delay" /\ closer' # closer)
          => PositionSize(portfolio', PositionSide(The(closer.order).side)) <=
             PositionSize(portfolio, PositionSide(The(closer.order).side))]_vars

\* the entries of orders_to_fill for orders of one side
RECURSIVE FillsOfSide(_, _)
FillsOfSide(fills, side) ==
    IF fills = <<>> THEN <<>>
    ELSE (IF Head(fills).order.side = side THEN <<Head(fills)>> ELSE <<>>)
         \o FillsOfSide(Tail(fills), side)

RECURSIVE SumFillSizes(_)
SumFillSizes(fills) ==
    IF fills = <<>> THEN 0 ELSE Head(fills).fill.size + SumFillSizes(Tail(fills))

\* the limit price furthest into the book among the orders of the entries:
\* the highest for BUY orders, the lowest for SELL orders
RECURSIVE ExtremePrice(_, _)
ExtremePrice(fills, is_buy) ==
    IF Len(fills) = 1 THEN Head(fills).order.price
    ELSE IF is_buy THEN RMax(Head(fills).order.price, ExtremePrice(Tail(fills), is_buy))
         ELSE RMin(Head(fills).order.price, ExtremePrice(Tail(fills), is_buy))

\* the fills of one side decided in one pass fit the liquidity of the
\* counter side of the book at or better than the extreme limit price
FitsLiquidity(fills, counter_list, is_buy) ==
    fills # <<>>
    => SumFillSizes(fills) <=
       get_available_liquidity(counter_list, ExtremePrice(fills, is_buy), is_buy)

\* C39 as the specification states it: the fills decided for BUY orders in
\* one pass of the loop do not exceed the ask liquidity of that pass's book
\* at or below the highest filled limit price, and the fills for SELL orders
\* do not exceed the bid liquidity at or above the lowest one.
C39_AsStated ==
    [][\A t \in 1..Len(tasks) :
         (tasks[t].pc \in Waiting /\ tasks'[t].pc = "delay")
         => /\ FitsLiquidity(FillsOfSide(tasks'[t].fills, BUY),
                             market.sell_orders_list, TRUE)
            /\ FitsLiquidity(FillsOfSide(tasks'[t].fills, SELL),
                             market.buy_orders_list, FALSE)]_vars

\* C35: a LONG and a SHORT position are never open at the same time, in any
\* reachable state and after any _process_fill call; a call that opens or
\* enlarges the position of the fill's own side leaves no position on the
\* opposite side.
C35_NeverBothSides ==
    /\ get_position(portfolio, LONG) = None \/ get_position(portfolio, SHORT) = None
    /\ history.n_fills > 0
       => /\ LastOppositeAfter = None \/ LastCurrentAfter = None
          /\ PositionSize(LastFill.after, PositionSide(LastFill.side)) >
             PositionSize(LastFill.before, PositionSide(LastFill.side))
             => LastOppositeAfter = None

\* a fill met a position on the opposite side and left one on its own side
C35_Witness ==
    /\ history.n_fills > 0
    /\ LastOpposite # None
    /\ LastOppositeAfter = None
    /\ LastCurrentAfter # None

\* LONG size minus SHORT size
NetPosition(p) == PositionSize(p, LONG) - PositionSize(p, SHORT)

\* an entry of orders_to_fill whose fill is smaller than its order
Partial(entry) == entry.fill.size < entry.order.size

\* C36: an order the loop fills in part is removed from the resting orders
\* as a whole when the fill starts and is never resting again (an id enters
\* the resting set only when open_limit_order creates it); the loop starts
\* no second fill for an id; and the _process_fill call of a partial fill
\* moves the net position by the fill size, not by the order size.
C36_PartialFill ==
    /\ [](\A t \in 1..Len(tasks) :
            (tasks[t].pc = "delay" /\ Partial(tasks[t].fills[1]))
            => get_order(portfolio, tasks[t].fills[1].order.id) = None)
    /\ [](\A i, j \in 1..Len(history.started) :
            history.started[i] = history.started[j] => i = j)
    /\ [][RestingIds(portfolio') \ RestingIds(portfolio) \subseteq {issued.orders + 1}]_vars
    /\ [][\A t \in 1..Len(tasks) :
            (/\ tasks[t].pc = "delay"
             /\ Partial(tasks[t].fills[1])
             /\ tasks'[t] # tasks[t]
             /\ tasks'[t].pc # "cancelled")
            => NetPosition(portfolio') - NetPosition(portfolio) =
               (IF tasks[t].fills[1].order.side = BUY THEN tasks[t].fills[1].fill.size
                ELSE 0 - tasks[t].fills[1].fill.size)]_vars

\* the loop waits on a fill of 10 for an order of 30
C36_Witness ==
    \E t \in 1..Len(tasks) :
        /\ tasks[t].pc = "delay"
        /\ tasks[t].fills[1].order.size = 30
        /\ tasks[t].fills[1].fill.size = 10

----------------------------------------------------------------------------
(* The life of the monitoring loop (specification LoopSpec): setup() may   *)
(* be called again, and a pass of the loop may raise.                      *)

MaxSetups == 2

LoopNext ==
    \/ MarketData
    \/ Setup(MaxSetups)
    \/ OpenLimitOrder
    \/ CancelAllOrders
    \/ CriticalCloseAll
    \/ CloserResume
    \/ MonitorIteration
    \/ MonitorResume
    \/ MonitorRaise

LoopSpec == Init /\ [][LoopNext]_vars

\* task: it has statements left to run
Alive(task) == task.pc \in {"sleep", "cooldown", "delay"}

\* the step in which critical_close_all returns
CriticalReturns == closer.pc # "returned" /\ closer'.pc = "returned"

\* C21: an exception raised inside a pass of the monitoring loop is caught
\* inside the loop: no task ever ends with an exception (which "await
\* self._monitor_task" would hand to the caller of critical_close_all), the
\* pass that raised changes nothing in the ledger and leaves its task in the
\* cooldown, a task leaves the cooldown only by a further pass or by being
\* cancelled, and a task ends only when critical_close_all cancels it or
\* after critical_close_all cleared the running flag.
C21_LoopSurvivesExceptions ==
    /\ [](\A t \in 1..Len(tasks) : tasks[t].pc # "failed")
    /\ [][MonitorRaise
          => /\ portfolio' = portfolio
             /\ \E t \in 1..Len(tasks) : tasks[t].pc = "sleep" /\ tasks'[t].pc = "cooldown"
             /\ \A t \in 1..Len(tasks) : Alive(tasks[t]) => Alive(tasks'[t])]_vars
    /\ [][\A t \in 1..Len(tasks) :
            (tasks[t].pc = "cooldown" /\ tasks'[t].pc # "cooldown")
            => \/ MonitorIteration
               \/ CriticalReturns /\ tasks'[t].pc = "cancelled"]_vars
    /\ [][\A t \in 1..Len(tasks) :
            (Alive(tasks[t]) /\ ~Alive(tasks'[t]))
            => \/ CriticalReturns /\ t = monitor_task /\ tasks'[t].pc = "cancelled"
               \/ ~monitoring /\ closer.pc = "returned" /\ tasks'[t].pc = "finished"]_vars

\* a pass raised while orders rest, the task is in the cooldown and the
\* loop runs on
C21_Witness ==
    /\ monitoring
    /\ portfolio.open_orders # <<>>
    /\ \E t \in 1..Len(tasks) : tasks[t].pc = "cooldown"

\* the loop ran and the running flag is cleared
Stopped == Started /\ ~monitoring

\* C22 as the specification states it: the loop goes from running to stopped
\* only in the step in which critical_close_all returns, and once stopped it
\* stays stopped whatever is called.
C22_AsStated ==
    /\ [][(monitoring /\ ~monitoring') => CriticalReturns]_vars
    /\ [][Stopped => Stopped' /\ ~LoopAlive']_vars

\* the book lacks its bid side or its ask side
SideEmpty(mkt) == mkt.buy_orders_list = <<>> \/ mkt.sell_orders_list = <<>>

\* C30: a pass of the monitoring loop that finds the bid side or the ask
\* side of the book empty leaves the tracker as it was, whatever orders rest,
\* and its task asleep for the next pass; the step changes no order, balance,
\* position or counter, records nothing and leaves the loop running.
C30_EmptyBookPass ==
    /\ [](\A mkt \in Markets \cup {MarketNoBid, MarketEmpty} :
            SideEmpty(mkt)
            => monitor_iteration(portfolio, mkt, TRUE, issued.fills + 1) =
                   [p |-> portfolio, task |-> Task("sleep", <<>>, 0)])
    /\ [][(monitoring /\ SideEmpty(market) /\ MonitorIteration)
          => /\ portfolio' = portfolio
             /\ history' = history
             /\ issued' = issued
             /\ monitoring'
             /\ \A t \in 1..Len(tasks) : Alive(tasks[t]) => Alive(tasks'[t])]_vars

\* the loop runs, the book has no asks, and an order rests that a pass would
\* fill if the asks were there
C30_Witness ==
    /\ monitoring
    /\ market = MarketNoAsk
    /\ \E t \in 1..Len(tasks) : tasks[t].pc = "sleep"
    /\ orders_to_fill(portfolio.open_orders, MarketLow) # <<>>

\* C37 as the specification states it: whatever setup and
\* critical_close_all calls are made, at most one monitoring task has
\* statements left to run.
C37_AsStated ==
    Cardinality({t \in 1..Len(tasks) : Alive(tasks[t])}) <= 1

----------------------------------------------------------------------------
(* Limit orders modified while the loop works through a pass               *)
(* (specification RaceSpec): two orders and one modification.              *)

MaxRaceOrders == 2

MaxRaceModifies == 1

RaceOpenLimitOrder ==
    /\ Started
    /\ issued.orders < MaxRaceOrders
    /\ \E terms \in LimitTerms, is_reduce \in BOOLEAN : PlaceLimitOrder(terms, is_reduce)

RaceModifyLimitOrder ==
    /\ Started
    /\ issued.modifies < MaxRaceModifies
    /\ \E order_id \in 1..issued.orders, terms \in LimitTerms : ModifyOrder(order_id, terms)

RaceNext ==
    \/ MarketData
    \/ Setup(1)
    \/ RaceOpenLimitOrder
    \/ RaceModifyLimitOrder
    \/ MonitorIteration
    \/ MonitorResume

RaceSpec == Init /\ [][RaceNext]_vars

\* C33 as the specification states it: when the loop starts the fill of an
\* order whose id rests in the ledger, the order it fills (side, size, price
\* and the fill decided from them) is the one resting under that id.
C33_AsStated ==
    [][\A t \in 1..Len(tasks) :
         (StartsFill(t) /\ get_order(portfolio, tasks'[t].fills[1].order.id) # None)
         => get_order(portfolio, tasks'[t].fills[1].order.id) =
                Some(tasks'[t].fills[1].order)]_vars

----------------------------------------------------------------------------
(* The loop under fair scheduling (specification FairSpec): the event loop *)
(* runs every task that is ready, and asyncio.sleep returns, so a task     *)
(* waiting between passes makes its next pass and a task in                *)
(* simulate_fill_delay resumes.                                            *)

FairNext ==
    \/ MarketData
    \/ Setup(1)
    \/ OpenLimitOrder
    \/ ModifyLimitOrder
    \/ CancelAllOrders
    \/ CriticalCloseAll
    \/ CloserResume
    \/ MonitorIteration
    \/ MonitorResume

\* The scheduler acts on the tasks, and the two conditions are stated on
\* that variable: what a pass, and what the return of simulate_fill_delay,
\* make of the frame of task t.

\* the frame of a waiting task after its next pass of "while self._monitoring"
pass_frame(p, mkt, running, fid) ==
    IF ~running THEN Task("finished", <<>>, 0)
    ELSE IF mkt.buy_orders_list = <<>> \/ mkt.sell_orders_list = <<>>
         \/ orders_to_fill(p.open_orders, mkt) = <<>>
    THEN Task("sleep", <<>>, 0)
    ELSE Task("delay", orders_to_fill(p.open_orders, mkt), fid)

\* the frame of a task in simulate_fill_delay once it has gone on to the next
\* entry of orders_to_fill or to the sleep that ends the pass
resume_frame(task, fid) ==
    IF Len(task.fills) = 1 THEN Task("sleep", <<>>, 0)
    ELSE Task("delay", Tail(task.fills), fid)

PassScheduled ==
    \E t \in 1..Len(tasks) :
        /\ tasks[t].pc \in Waiting
        /\ tasks' = [tasks EXCEPT ![t] = pass_frame(portfolio, market, monitoring,
                                                    issued.fills + 1)]

ResumeScheduled ==
    \E t \in 1..Len(tasks) :
        /\ tasks[t].pc = "delay"
        /\ tasks' = [tasks EXCEPT ![t] = resume_frame(tasks[t], issued.fills + 1)]

FairSpec ==
    /\ Init /\ [][FairNext]_vars
    /\ WF_tasks(PassScheduled)
    /\ WF_tasks(ResumeScheduled)

\* the steps the two conditions ask for are the steps of the loop
ScheduledIsLoop ==
    /\ (PassScheduled /\ tasks' # tasks) <=> (MonitorIteration /\ vars' # vars)
    /\ (ResumeScheduled /\ tasks' # tasks) <=> (MonitorResume /\ vars' # vars)

\* the loop is running
Running == monitoring /\ LoopAlive

\* the order of that id rests and a pass made now would decide a fill for it
FillableNow(order_id) ==
    /\ get_order(portfolio, order_id) # None
    /\ ~SideEmpty(market)
    /\ check_limit_order_fill(The(get_order(portfolio, order_id)),
                              The(BestPrice(market.buy_orders_list)),
                              The(BestPrice(market.sell_orders_list)),
                              market.buy_orders_list, market.sell_orders_list) # None

\* some task still has an entry for that id in its orders_to_fill
HeldByLoop(order_id) ==
    \E t \in 1..Len(tasks) : \E k \in 1..Len(tasks[t].fills) :
        tasks[t].fills[k].order.id = order_id

\* the loop removed the order, applied its fee and made its _process_fill call
FillCompleted(order_id) ==
    /\ get_order(portfolio, order_id) = None
    /\ \E i \in 1..Len(history.started) : history.started[i] = order_id
    /\ ~HeldByLoop(order_id)

\* the order was cancelled before the loop started on it
CancelledUnfilled(order_id) ==
    /\ get_order(portfolio, order_id) = None
    /\ \A i \in 1..Len(history.started) : history.started[i] # order_id

EventuallyFilled(order_id) ==
    (Running /\ FillableNow(order_id))
    ~> \/ FillCompleted(order_id)
       \/ ~Running
       \/ CancelledUnfilled(order_id)
       \/ get_order(portfolio, order_id) # None /\ ~FillableNow(order_id)

\* C31: under fair scheduling of the loop, a resting order that a pass would
\* fill is eventually removed with its fee applied and its position update
\* made, unless the loop is stopped, the order is cancelled, or the order
\* stops being fillable (the book moves or the order is modified) first.
C31_EventuallyFilled ==
    /\ EventuallyFilled(1)
    /\ EventuallyFilled(2)
    /\ [][ScheduledIsLoop]_vars

\* the loop runs and has completed the fill of an order
C31_Witness ==
    /\ Running
    /\ \E order_id \in 1..MaxLimitCalls : FillCompleted(order_id)

----------------------------------------------------------------------------
(* Calls of the simulator's functions on their own (specification SimSpec) *)

\* Depth of the deepest book drawn; more than MaxLevels, so that the
\* ten-level cap of the walk is exercised.
MaxDepth == 12

SimSizes == {5, 10, 30}

SimPrices == {R(99), R(100), R(101)}

\* best_bid / best_ask handed over when the side of the book is empty
SimRefPrices == {R(99), R(100)}

\* n levels from base, step apart, each of size sz
Ladder(n, base, step, sz) == [i \in 1..n |-> <<R(base + step * (i - 1)), sz>>]

\* sell side, best (lowest) price first
SimSellLists ==
    { <<>>,
      << <<R(100), 20>> >>,
      << <<R(99), 15>> >>,
      << <<R(101), 10>> >>,
      << <<R(100), 10>>, <<[n |-> 201, d |-> 2], 10>>, <<R(101), 10>> >>,
      << <<R(99), 4>>, <<R(100), 3>>, <<R(102), 5>> >> }
    \cup { Ladder(n, 98, 1, 2) : n \in {MaxLevels, MaxDepth} }

\* buy side, best (highest) price first
SimBuyLists ==
    { <<>>,
      << <<R(99), 20>> >>,
      << <<R(98), 10>> >>,
      << <<R(100), 10>> >>,
      << <<R(101), 15>> >>,
      << <<R(101), 4>>, <<R(100), 3>>, <<R(98), 5>> >> }
    \cup { Ladder(n, 102, -1, 2) : n \in {MaxLevels, MaxDepth} }

\* best price of a side as both callers read it (orders_list[0][0]); a
\* reference price when the side is empty
BestOrRef(orders_list) ==
    IF orders_list = <<>> THEN SimRefPrices ELSE {LevelPrice(orders_list[1])}

SimCall(op, side, size, price, bid, ask, buys, sells) ==
    [op |-> op, side |-> side, size |-> size, price |-> price,
     bid_price |-> bid, ask_price |-> ask,
     buy_orders_list |-> buys, sell_orders_list |-> sells,
     done |-> FALSE, result |-> None]

\* check_limit_order_fill is called by _monitor_orders only, with both sides
\* of the book non-empty and the best prices read from them
SimLimitCalls ==
    { SimCall("limit", side, size, price, LevelPrice(buys[1]), LevelPrice(sells[1]), buys, sells) :
        side \in {BUY, SELL}, size \in SimSizes, price \in SimPrices,
        buys \in SimBuyLists \ {<<>>}, sells \in SimSellLists \ {<<>>} }

SimMarketCalls ==
    UNION { { SimCall("market", side, size, R(0), bid, ask, buys, sells) :
                side \in {BUY, SELL}, size \in SimSizes,
                bid \in BestOrRef(buys), ask \in BestOrRef(sells) } :
            buys \in SimBuyLists, sells \in SimSellLists }

SimOrder == [side |-> sim.side, size |-> sim.size, price |-> sim.price]

SimCheckLimit ==
    /\ sim.op = "limit" /\ ~sim.done
    /\ sim' = [sim EXCEPT !.done = TRUE,
                          !.result = check_limit_order_fill(SimOrder, sim.bid_price, sim.ask_price,
                                                            sim.buy_orders_list, sim.sell_orders_list)]
    /\ UNCHANGED <<portfolio, market, monitoring, monitor_task, tasks, inflight, closer,
                   issued, history>>

SimMarketFill ==
    /\ sim.op = "market" /\ ~sim.done
    /\ sim' = [sim EXCEPT !.done = TRUE,
                          !.result = simulate_market_order_fill(sim.side, sim.size, sim.bid_price,
                                                                sim.ask_price, sim.buy_orders_list,
                                                                sim.sell_orders_list)]
    /\ UNCHANGED <<portfolio, market, monitoring, monitor_task, tasks, inflight, closer,
                   issued, history>>

SimInit ==
    /\ sim \in SimLimitCalls \cup SimMarketCalls
    /\ portfolio = PortfolioInit
    /\ market = MarketNoAsk
    /\ monitoring = FALSE
    /\ monitor_task = 0
    /\ tasks = <<>>
    /\ inflight = EmptyBag
    /\ closer = CloserIdle
    /\ issued = [orders |-> 0, markets |-> 0, modifies |-> 0, fills |-> 0]
    /\ history = HistoryInit

SimNext == SimCheckLimit \/ SimMarketFill

SimSpec == SimInit /\ [][SimNext]_vars

----------------------------------------------------------------------------
(* Properties of the simulator's functions, checked under SimSpec          *)

LimitDone(side) == sim.op = "limit" /\ sim.done /\ sim.side = side

MarketDone == sim.op = "market" /\ sim.done

\* the side of the book a call executes against
SimCounterList == IF sim.side = BUY THEN sim.sell_orders_list ELSE sim.buy_orders_list

\* price q is at-or-better than the limit price for an order of sim.side
AtOrBetter(q) == IF sim.side = BUY THEN RLe(q, sim.price) ELSE RLe(sim.price, q)

RECURSIVE SumSizes(_, _)
SumSizes(orders_list, k) ==
    IF k = 0 THEN 0 ELSE SumSizes(orders_list, k - 1) + LevelSize(orders_list[k])

RECURSIVE SumCost(_, _)
SumCost(orders_list, k) ==
    IF k = 0 THEN R(0)
    ELSE RAdd(SumCost(orders_list, k - 1),
              RMul(R(LevelSize(orders_list[k])), LevelPrice(orders_list[k])))

\* number of leading levels of the counter side at-or-better than sim.price
LeadingLevels ==
    CHOOSE k \in 0..Len(SimCounterList) :
        /\ \A i \in 1..k : AtOrBetter(LevelPrice(SimCounterList[i]))
        /\ k < Len(SimCounterList) => ~AtOrBetter(LevelPrice(SimCounterList[k + 1]))

LeadingLiquidity == SumSizes(SimCounterList, LeadingLevels)

\* C5: a BUY limit order is not filled while bestAsk > order.price, and is
\* filled at order.price as maker whenever order.price < bestBid and
\* bestAsk <= order.price.
C5_BuyLimitRule ==
    LimitDone(BUY) =>
        /\ RLt(sim.price, sim.ask_price) => sim.result = None
        /\ (RLt(sim.price, sim.bid_price) /\ RLe(sim.ask_price, sim.price)) =>
              /\ sim.result # None
              /\ The(sim.result).price = sim.price
              /\ The(sim.result).is_maker = TRUE

\* the crossed book bid=100, ask=99 with a BUY at 99 returns a maker fill at 99
C5_Witness ==
    /\ LimitDone(BUY)
    /\ sim.bid_price = R(100) /\ sim.ask_price = R(99) /\ sim.price = R(99)
    /\ sim.sell_orders_list = << <<R(99), 15>> >>
    /\ sim.size = 10
    /\ sim.result = Some(Fill(R(99), 10, TRUE))

\* C6: a SELL limit order is not filled while bestBid < order.price; when
\* filled, isMaker = (order.price > bestAsk), a maker fill is at order.price
\* and a taker fill at max(order.price, bestBid); a SELL fill price is never
\* below the limit price and a BUY fill price never above it.
C6_SellLimitRule ==
    /\ LimitDone(SELL) =>
        /\ RLt(sim.bid_price, sim.price) => sim.result = None
        /\ sim.result # None =>
              /\ The(sim.result).is_maker = RLt(sim.ask_price, sim.price)
              /\ The(sim.result).is_maker => The(sim.result).price = sim.price
              /\ ~The(sim.result).is_maker =>
                    The(sim.result).price = RMax(sim.price, sim.bid_price)
              /\ RLe(sim.price, The(sim.result).price)
    /\ LimitDone(BUY) =>
        (sim.result # None => RLe(The(sim.result).price, sim.price))

\* a SELL maker fill (limit above the ask of a crossed book) and a SELL
\* taker fill above the limit are both returned
C6_Witness ==
    /\ LimitDone(SELL)
    /\ sim.result # None
    /\ \/ The(sim.result).is_maker /\ RLt(sim.ask_price, sim.price)
       \/ ~The(sim.result).is_maker /\ RLt(sim.price, The(sim.result).price)

\* C7: a returned fill has 0 < fillSize <= order.size and fillSize =
\* min(order.size, L), L the total size of the leading counter-side levels
\* at-or-better than order.price; with L = 0 nothing is returned.
C7_FillSizeCappedByLiquidity ==
    (sim.op = "limit" /\ sim.done) =>
        /\ sim.result # None =>
              /\ 0 < The(sim.result).size
              /\ The(sim.result).size <= sim.size
              /\ The(sim.result).size = IMin(sim.size, LeadingLiquidity)
        /\ LeadingLiquidity = 0 => sim.result = None

\* a partial fill: liquidity stops at a level worse than the limit although a
\* later level would qualify by size alone
C7_Witness ==
    /\ sim.op = "limit" /\ sim.done
    /\ sim.result # None
    /\ The(sim.result).size < sim.size
    /\ LeadingLevels < Len(SimCounterList)
    /\ The(sim.result).size = LeadingLiquidity

\* C8: simulate_market_order_fill reports filledSize = size for either side,
\* any positive size and any book (empty, shallower than the order, deeper
\* than ten levels).
C8_MarketFullyFilled ==
    MarketDone => sim.result[2] = sim.size

\* an order larger than the first ten levels of a book deeper than ten
C8_Witness ==
    /\ MarketDone
    /\ Len(SimCounterList) > MaxLevels
    /\ sim.size > SumSizes(SimCounterList, MaxLevels)
    /\ sim.result[2] = sim.size

\* levels the walk may touch
Considered == IMin(MaxLevels, Len(SimCounterList))

\* the level at which an order that the considered levels can hold is
\* completed
LastConsumed ==
    CHOOSE j \in 1..Considered :
        /\ SumSizes(SimCounterList, j) >= sim.size
        /\ SumSizes(SimCounterList, j - 1) < sim.size

\* cost of sim.size taken from the levels in order, level j taken in part
ConsumedCost(j) ==
    RAdd(SumCost(SimCounterList, j - 1),
         RMul(R(sim.size - SumSizes(SimCounterList, j - 1)), LevelPrice(SimCounterList[j])))

StrictlyBetween(x, a, b) == (RLt(a, x) /\ RLt(x, b)) \/ (RLt(b, x) /\ RLt(x, a))

\* C9 as stated: whenever the order takes from more than one level the
\* average lies strictly between the best and the worst consumed level
\* prices (also when the considered levels cannot hold the order).
C9_AsStated ==
    (MarketDone /\ Considered >= 2 /\ sim.size > LevelSize(SimCounterList[1])) =>
        LET worst == IF sim.size <= SumSizes(SimCounterList, Considered)
                     THEN LastConsumed ELSE Considered
        IN StrictlyBetween(sim.result[1], LevelPrice(SimCounterList[1]),
                           LevelPrice(SimCounterList[worst]))

\* C9 (amended): the walk is over the opposing side; a first level holding
\* the whole order gives that level's price; an order held by the considered
\* levels and taking from several of them gives the size-weighted mean of the
\* consumed levels, strictly between the best and the worst consumed price.
C9_WeightedAverage ==
    (MarketDone /\ SimCounterList # <<>>) =>
        /\ sim.size <= LevelSize(SimCounterList[1]) =>
              sim.result[1] = LevelPrice(SimCounterList[1])
        /\ (sim.size > LevelSize(SimCounterList[1])
            /\ sim.size <= SumSizes(SimCounterList, Considered)) =>
              /\ sim.result[1] = RDiv(ConsumedCost(LastConsumed), R(sim.size))
              /\ StrictlyBetween(sim.result[1], LevelPrice(SimCounterList[1]),
                                 LevelPrice(SimCounterList[LastConsumed]))

\* BUY 30 against 10@100, 10@100.5, 10@101: average 100.5, all 30 filled
C9_Witness ==
    /\ MarketDone /\ sim.side = BUY /\ sim.size = 30
    /\ sim.sell_orders_list = << <<R(100), 10>>, <<[n |-> 201, d |-> 2], 10>>, <<R(101), 10>> >>
    /\ sim.result = << [n |-> 201, d |-> 2], 30 >>

\* C10: an empty opposing book gives the full size at referencePrice*1.01
\* (BUY) or *0.99 (SELL); when the considered levels (at most ten) leave a
\* remainder it is priced at the last considered level's price times 1.02
\* (BUY) or 0.98 (SELL); either way the price moves against the order.
C10_Slippage ==
    MarketDone =>
        LET ref == IF sim.side = BUY THEN sim.ask_price ELSE sim.bid_price
            rest == sim.size - SumSizes(SimCounterList, Considered)
            last == LevelPrice(SimCounterList[Considered])
            factor == IF sim.side = BUY THEN [n |-> 102, d |-> 100] ELSE [n |-> 98, d |-> 100]
        IN /\ SimCounterList = <<>> =>
                /\ sim.result[2] = sim.size
                /\ sim.result[1] = IF sim.side = BUY
                                   THEN RDiv(RMul(ref, R(101)), R(100))
                                   ELSE RDiv(RMul(ref, R(99)), R(100))
                /\ IF sim.side = BUY THEN RLt(ref, sim.result[1]) ELSE RLt(sim.result[1], ref)
           /\ (SimCounterList # <<>> /\ rest > 0) =>
                /\ RMul(sim.result[1], R(sim.size)) =
                      RAdd(SumCost(SimCounterList, Considered),
                           RMul(R(rest), RMul(last, factor)))
                /\ IF sim.side = BUY
                   THEN RLt(RDiv(SumCost(SimCounterList, Considered),
                                 R(SumSizes(SimCounterList, Considered))), sim.result[1])
                   ELSE RLt(sim.result[1], RDiv(SumCost(SimCounterList, Considered),
                                                R(SumSizes(SimCounterList, Considered))))

\* a SELL larger than the first ten levels of a twelve-level book: the
\* remainder is priced from the tenth level, not the twelfth
C10_Witness ==
    /\ MarketDone /\ sim.side = SELL
    /\ Len(sim.buy_orders_list) > MaxLevels
    /\ sim.size > SumSizes(sim.buy_orders_list, MaxLevels)
    /\ LevelPrice(sim.buy_orders_list[MaxLevels]) # LevelPrice(sim.buy_orders_list[Len(sim.buy_orders_list)])

----------------------------------------------------------------------------
(* Calls of the fee, PnL and margin functions on their own (specification  *)
(* LedgerSpec): the tracker is put in place through update_position, as a  *)
(* user of PortfolioTracker does, then one function is called.             *)

\* how many times the same can_open_position call is repeated
MaxRepeats == 2

LedgerPrices == {R(95), R(100), R(110)}

LedgerPositionLists ==
    { <<>>,
      << Position(LONG, 10, R(100)) >>,
      << Position(SHORT, 10, R(100)) >>,
      << Position(LONG, 10, R(100)), Position(SHORT, 30, R(120)) >>,
      << Position(SHORT, 30, R(120)), Position(LONG, 30, R(95)) >> }

\* update_position for each position of the list in turn
RECURSIVE WithPositions(_, _)
WithPositions(p, positions) ==
    IF positions = <<>> THEN p
    ELSE WithPositions(update_position(p, Head(positions).side, Head(positions).size,
                                       Head(positions).entry_price, R(0)),
                       Tail(positions))

\* trackers with a realized PnL of 0 or -850 booked and the positions opened
LedgerTrackers ==
    { WithPositions(update_position(PortfolioInit, LONG, 0, R(0), pnl), positions) :
        pnl \in {R(0), R(-850)}, positions \in LedgerPositionLists }

LedgerFeeCalls ==
    { [op |-> "calculate_fee", fill_price |-> fill_price, fill_size |-> fill_size,
       is_maker |-> is_maker, done |-> FALSE, result |-> None] :
        fill_price \in {R(0), R(100), [n |-> 201, d |-> 2]}, fill_size \in {0, 10, 30},
        is_maker \in BOOLEAN }

LedgerPnlCalls ==
    { [op |-> "calculate_realized_pnl", entry_price |-> entry_price,
       exit_price |-> exit_price, size |-> size, is_long |-> is_long,
       done |-> FALSE, result |-> None] :
        entry_price \in LedgerPrices, exit_price \in LedgerPrices, size \in {10, 30},
        is_long \in BOOLEAN }

LedgerEquityCalls ==
    { [op |-> "get_equity", mark_price |-> mark_price, done |-> FALSE,
       unrealized_pnl |-> None, equity |-> None] : mark_price \in LedgerPrices }

LedgerCanOpenCalls ==
    { [op |-> "can_open_position", size |-> size, price |-> price,
       mark_price |-> mark_price, results |-> <<>>] :
        size \in {10, 100}, price \in {R(100), R(110)}, mark_price \in LedgerPrices }

LedgerCalculateFee ==
    /\ sim.op = "calculate_fee" /\ ~sim.done
    /\ sim' = [sim EXCEPT !.done = TRUE,
                          !.result = Some(calculate_fee(sim.fill_price, sim.fill_size,
                                                        sim.is_maker))]
    /\ UNCHANGED <<portfolio, market, monitoring, monitor_task, tasks, inflight, closer,
                   issued, history>>

LedgerRealizedPnl ==
    /\ sim.op = "calculate_realized_pnl" /\ ~sim.done
    /\ sim' = [sim EXCEPT !.done = TRUE,
                          !.result = Some(calculate_realized_pnl(sim.entry_price,
                                              sim.exit_price, sim.size, sim.is_long))]
    /\ UNCHANGED <<portfolio, market, monitoring, monitor_task, tasks, inflight, closer,
                   issued, history>>

\* get_unrealized_pnl and get_equity at the same mark price
LedgerEquity ==
    /\ sim.op = "get_equity" /\ ~sim.done
    /\ sim' = [sim EXCEPT !.done = TRUE,
                          !.unrealized_pnl = Some(get_unrealized_pnl(portfolio, sim.mark_price)),
                          !.equity = Some(get_equity(portfolio, sim.mark_price))]
    /\ UNCHANGED <<portfolio, market, monitoring, monitor_task, tasks, inflight, closer,
                   issued, history>>

CanOpenReservesMargin(p, size, price, mark_price) ==
    [p |-> [p EXCEPT !.balance = RSub(@, RDiv(RMul(R(size), price), R(MaxLeverage)))],
     result |-> can_open_position(p, size, price, mark_price)]

\* one can_open_position call: the tracker afterwards (the method assigns to
\* no attribute) and the value returned
can_open_position_call(p, size, price, mark_price) ==
    [p |-> p, result |-> can_open_position(p, size, price, mark_price)]

\* the tracker and the record of results take what the call yielded
CanOpenCalled(called) ==
    /\ portfolio' = called.p
    /\ sim' = [sim EXCEPT !.results = Append(@, called.result)]

LedgerCanOpen ==
    /\ sim.op = "can_open_position" /\ Len(sim.results) < MaxRepeats
    /\ CanOpenCalled(can_open_position_call(portfolio, sim.size, sim.price, sim.mark_price))
    /\ UNCHANGED <<market, monitoring, monitor_task, tasks, inflight, closer, issued, history>>

LedgerInit ==
    /\ \/ /\ sim \in LedgerFeeCalls \cup LedgerPnlCalls
          /\ portfolio = PortfolioInit
       \/ /\ sim \in LedgerEquityCalls \cup LedgerCanOpenCalls
          /\ portfolio \in LedgerTrackers
    /\ market = MarketNoAsk
    /\ monitoring = FALSE
    /\ monitor_task = 0
    /\ tasks = <<>>
    /\ inflight = EmptyBag
    /\ closer = CloserIdle
    /\ issued = [orders |-> 0, markets |-> 0, modifies |-> 0, fills |-> 0]
    /\ history = HistoryInit

LedgerNext == LedgerCalculateFee \/ LedgerRealizedPnl \/ LedgerEquity \/ LedgerCanOpen

LedgerSpec == LedgerInit /\ [][LedgerNext]_vars

----------------------------------------------------------------------------
(* Properties of the fee, PnL and margin functions, checked under LedgerSpec *)

\* C11: calculate_fee(price, size, is_maker) is price*size*(-0.0002) for a
\* maker fill and price*size*0.0005 for a taker fill; for a notional that is
\* not negative the maker fee is never positive and the taker fee never
\* negative; fee(100, 10, maker) = -0.2 and fee(100, 10, taker) = 0.5.
C11_Fee ==
    (sim.op = "calculate_fee" /\ sim.done)
    => /\ The(sim.result) =
             Norm(sim.fill_price.n * sim.fill_size * (IF sim.is_maker THEN -2 ELSE 5),
                  sim.fill_price.d * 10000)
       /\ sim.is_maker => The(sim.result).n <= 0
       /\ ~sim.is_maker => The(sim.result).n >= 0
       /\ (sim.fill_price = R(100) /\ sim.fill_size = 10)
          => The(sim.result) = IF sim.is_maker THEN [n |-> -1, d |-> 5] ELSE [n |-> 1, d |-> 2]

\* both fees of the example were computed
C11_Witness ==
    /\ sim.op = "calculate_fee" /\ sim.done
    /\ sim.fill_price = R(100) /\ sim.fill_size = 10
    /\ The(sim.result) = [n |-> -1, d |-> 5]

\* sum over the positions of calculate_realized_pnl(entry, mark, size, is LONG)
RECURSIVE SumRealizedAt(_, _)
SumRealizedAt(positions, mark_price) ==
    IF positions = <<>> THEN R(0)
    ELSE RAdd(SumRealizedAt(Tail(positions), mark_price),
              calculate_realized_pnl(Head(positions).entry_price, mark_price,
                                     Head(positions).size, Head(positions).side = LONG))

\* C12: calculate_realized_pnl is (exit - entry)*size for a long and
\* (entry - exit)*size for a short; get_unrealized_pnl(mark) is the sum over
\* the open positions of calculate_realized_pnl(entry_price, mark, size,
\* position is LONG); get_equity(mark) is balance + get_unrealized_pnl(mark).
C12_PnlAndEquity ==
    /\ (sim.op = "calculate_realized_pnl" /\ sim.done)
       => The(sim.result) =
             Norm((IF sim.is_long
                   THEN sim.exit_price.n * sim.entry_price.d - sim.entry_price.n * sim.exit_price.d
                   ELSE sim.entry_price.n * sim.exit_price.d - sim.exit_price.n * sim.entry_price.d)
                  * sim.size,
                  sim.entry_price.d * sim.exit_price.d)
    /\ (sim.op = "get_equity" /\ sim.done)
       => /\ The(sim.unrealized_pnl) = SumRealizedAt(portfolio.open_positions, sim.mark_price)
          /\ The(sim.equity) = RAdd(portfolio.balance, The(sim.unrealized_pnl))

\* the equity of a tracker holding a long and a short was computed, the two
\* positions' PnL being of opposite sign
C12_Witness ==
    /\ sim.op = "get_equity" /\ sim.done
    /\ Len(portfolio.open_positions) = 2
    /\ The(sim.unrealized_pnl) # R(0)
    /\ The(sim.equity) # portfolio.balance

\* sum over the positions of |size| * mark
RECURSIVE SumNotionalAt(_, _)
SumNotionalAt(positions, mark_price) ==
    IF positions = <<>> THEN R(0)
    ELSE RAdd(SumNotionalAt(Tail(positions), mark_price),
              RMul(R(Abs(Head(positions).size)), mark_price))

\* C13: can_open_position(size, price, mark) is true exactly when
\* (balance + unrealized PnL at mark) - (sum of |size|*mark over the open
\* positions) / max_leverage >= size*price / max_leverage; with balance 1000,
\* leverage 5 and no positions, size 10 at 100 is approved and size 100 at 100
\* is rejected.
C13_CanOpen ==
    (sim.op = "can_open_position" /\ sim.results # <<>>)
    => /\ sim.results[1] =
             RLe(RDiv(RMul(R(sim.size), sim.price), R(MaxLeverage)),
                 RSub(RAdd(portfolio.balance,
                           SumRealizedAt(portfolio.open_positions, sim.mark_price)),
                      RDiv(SumNotionalAt(portfolio.open_positions, sim.mark_price),
                           R(MaxLeverage))))
       /\ (/\ portfolio.balance = R(1000) /\ portfolio.open_positions = <<>>
           /\ sim.price = R(100) /\ sim.mark_price = R(100))
          => sim.results[1] = (sim.size = 10)

\* a call was rejected that the equity alone would have covered
C13_Witness ==
    /\ sim.op = "can_open_position" /\ sim.results # <<>>
    /\ portfolio.open_positions # <<>>
    /\ ~sim.results[1]
    /\ CanOpenIgnoresUsedMargin(portfolio, sim.size, sim.price, sim.mark_price)

\* C14: can_open_position changes no field of the tracker, and the same call
\* repeated with nothing in between returns the same answer.
C14_CanOpenReadOnly ==
    /\ [](sim.op = "can_open_position"
          => \A i \in 1..Len(sim.results) : sim.results[i] = sim.results[1])
    /\ [][LedgerCanOpen => portfolio' = portfolio]_vars

\* the same call was made twice on a tracker with positions and was rejected
C14_Witness ==
    /\ sim.op = "can_open_position"
    /\ Len(sim.results) = MaxRepeats
    /\ portfolio.open_positions # <<>>
    /\ ~sim.results[1]

----------------------------------------------------------------------------
(* Calls of the tracker's mutators in sequence (specification TrackerSpec): *)
(* sim holds the last call, its arguments, the tracker before it and what   *)
(* it returned; portfolio is the tracker after it.                          *)

MaxTrackerCalls == 3

MaxOrderIds == 2

TrackerCall(op, n, before, arg, result) ==
    [op |-> op, n |-> n, before |-> before, arg |-> arg, result |-> result]

\* remove_order that returns the order and leaves it resting
RemoveOrderCallPeeks(p, order_id) ==
    [p |-> p, result |-> get_order(p, order_id)]

\* one remove_order call: the tracker afterwards and the value returned,
\* open_orders.pop(order_id, None)
remove_order_call(p, order_id) ==
    [p |-> remove_order(p, order_id),
     result |-> IF OrderIndex(p.open_orders, order_id) = 0 THEN None
                ELSE Some(p.open_orders[OrderIndex(p.open_orders, order_id)])]

\* the tracker and the record of the last call take what the call yielded
TrackerCalled(p, call) ==
    /\ portfolio' = p
    /\ sim' = call
    /\ UNCHANGED <<market, monitoring, monitor_task, tasks, inflight, closer, issued, history>>

\* add_order with an id that is not resting: open_limit_order draws a new
\* uuid4, modify_limit_order removes the order of that id first
TrackerAddOrder ==
    /\ sim.n < MaxTrackerCalls
    /\ \E order_id \in 1..MaxOrderIds, terms \in LimitTerms :
          /\ get_order(portfolio, order_id) = None
          /\ TrackerCalled(add_order(portfolio,
                                     Order(order_id, terms.side, terms.size, terms.price)),
                           TrackerCall("add_order", sim.n + 1, portfolio,
                                       Order(order_id, terms.side, terms.size, terms.price),
                                       None))

TrackerRemoved(order_id, removed) ==
    TrackerCalled(removed.p,
                  TrackerCall("remove_order", sim.n + 1, portfolio, order_id, removed.result))

TrackerRemoveOrder ==
    /\ sim.n < MaxTrackerCalls
    /\ \E order_id \in 1..MaxOrderIds :
          TrackerRemoved(order_id, remove_order_call(portfolio, order_id))

TrackerUpdatePosition ==
    /\ sim.n < MaxTrackerCalls
    /\ \E side \in {LONG, SHORT}, size \in {0, 10, 30}, entry_price \in {R(100), R(110)},
          realized_pnl \in {R(0), R(50), R(-20)} :
          TrackerCalled(update_position(portfolio, side, size, entry_price, realized_pnl),
                        TrackerCall("update_position", sim.n + 1, portfolio,
                                    [side |-> side, size |-> size,
                                     entry_price |-> entry_price,
                                     realized_pnl |-> realized_pnl],
                                    None))

TrackerApplyFee ==
    /\ sim.n < MaxTrackerCalls
    /\ \E fee_amount \in {R(5), R(-2), [n |-> 1, d |-> 2]} :
          TrackerCalled(apply_fee(portfolio, fee_amount),
                        TrackerCall("apply_fee", sim.n + 1, portfolio, fee_amount, None))

TrackerInit ==
    /\ portfolio = PortfolioInit
    /\ sim = TrackerCall("__init__", 0, PortfolioInit, None, None)
    /\ market = MarketNoAsk
    /\ monitoring = FALSE
    /\ monitor_task = 0
    /\ tasks = <<>>
    /\ inflight = EmptyBag
    /\ closer = CloserIdle
    /\ issued = [orders |-> 0, markets |-> 0, modifies |-> 0, fills |-> 0]
    /\ history = HistoryInit

TrackerNext ==
    \/ TrackerAddOrder
    \/ TrackerRemoveOrder
    \/ TrackerUpdatePosition
    \/ TrackerApplyFee

TrackerSpec == TrackerInit /\ [][TrackerNext]_vars

----------------------------------------------------------------------------
(* Properties of the tracker's mutators, checked under TrackerSpec         *)

\* the fields of the tracker other than those named in fields are equal
SameExcept(a, b, fields) ==
    \A f \in DOMAIN a \ fields : a[f] = b[f]

OtherSide(side) == IF side = LONG THEN SHORT ELSE LONG

\* C26: update_position(side, size, entry, realized_pnl) leaves no position
\* of that side when size = 0 and otherwise one of the given size and entry
\* price; the balance grows by realized_pnl; the position of the other side,
\* the resting orders, the fee total, the trade counters, the peak and the
\* drawdown are as before the call.
C26_UpdatePosition ==
    sim.op = "update_position"
    => /\ get_position(portfolio, sim.arg.side) =
              (IF sim.arg.size = 0 THEN None
               ELSE Some(Position(sim.arg.side, sim.arg.size, sim.arg.entry_price)))
       /\ portfolio.balance = RAdd(sim.before.balance, sim.arg.realized_pnl)
       /\ get_position(portfolio, OtherSide(sim.arg.side)) =
              get_position(sim.before, OtherSide(sim.arg.side))
       /\ Len(portfolio.open_positions) <= 2
       /\ SameExcept(portfolio, sim.before, {"open_positions", "balance"})

\* a position was deleted with a PnL booked while the other side is held
C26_Witness ==
    /\ sim.op = "update_position"
    /\ sim.arg.size = 0
    /\ sim.arg.realized_pnl # R(0)
    /\ get_position(sim.before, sim.arg.side) # None
    /\ get_position(portfolio, OtherSide(sim.arg.side)) # None

\* C27: apply_fee(amount) lowers the balance by amount and raises
\* total_fees_paid by amount (a negative amount raises the balance and
\* lowers the fee total) and changes nothing else, so every apply_fee call
\* leaves balance + total_fees_paid as it was.
C27_ApplyFee ==
    /\ [](sim.op = "apply_fee"
          => /\ portfolio.balance = RSub(sim.before.balance, sim.arg)
             /\ portfolio.total_fees_paid = RAdd(sim.before.total_fees_paid, sim.arg)
             /\ RLt(sim.arg, R(0))
                => /\ RLt(sim.before.balance, portfolio.balance)
                   /\ RLt(portfolio.total_fees_paid, sim.before.total_fees_paid)
             /\ SameExcept(portfolio, sim.before, {"balance", "total_fees_paid"}))
    /\ [][TrackerApplyFee
          => RAdd(portfolio'.balance, portfolio'.total_fees_paid) =
             RAdd(portfolio.balance, portfolio.total_fees_paid)]_vars

\* a rebate was applied after a fee
C27_Witness ==
    /\ sim.op = "apply_fee"
    /\ RLt(sim.arg, R(0))
    /\ sim.before.total_fees_paid # R(0)
    /\ portfolio.balance # R(InitialBalance)

\* C28: after add_order(o) get_order(o.id) returns o, and remove_order(o.id)
\* then returns o and leaves the tracker as it was before the add;
\* remove_order returns what get_order returned before it, and for an id
\* that is not resting it returns nothing and changes nothing; no call
\* touches an order of another id or any other field.
C28_OrderBookkeeping ==
    /\ sim.op = "add_order"
       => /\ get_order(portfolio, sim.arg.id) = Some(sim.arg)
          /\ remove_order_call(portfolio, sim.arg.id).result = Some(sim.arg)
          /\ remove_order_call(portfolio, sim.arg.id).p = sim.before
          /\ \A order_id \in 1..MaxOrderIds \ {sim.arg.id} :
                get_order(portfolio, order_id) = get_order(sim.before, order_id)
          /\ SameExcept(portfolio, sim.before, {"open_orders"})
    /\ sim.op = "remove_order"
       => /\ sim.result = get_order(sim.before, sim.arg)
          /\ get_order(portfolio, sim.arg) = None
          /\ sim.result = None => portfolio = sim.before
          /\ \A order_id \in 1..MaxOrderIds \ {sim.arg} :
                get_order(portfolio, order_id) = get_order(sim.before, order_id)
          /\ SameExcept(portfolio, sim.before, {"open_orders"})

\* of two resting orders one was removed by its id and the other still rests
C28_Witness ==
    /\ sim.op = "remove_order"
    /\ sim.result # None
    /\ portfolio.open_orders # <<>>
    /\ Len(sim.before.open_orders) = 2
====
